---- MODULE Spec2Model ----
(***************************************************************************)
(* Room State Store of votedeck-api: the Redis ("Fast Store") view of a    *)
(* planning-poker room kept against its Postgres ("Durable Store") record, *)
(* the socket handlers that drive it, and the countdown reveal.            *)
(*                                                                         *)
(* One room id is modelled (rooms are independent: every key and every row *)
(* is keyed by the room id).  Each roomStore function is an operator from  *)
(* the two stores and its arguments to the two stores after the call and   *)
(* the value returned; a handler is an action composed of those operators. *)
(***************************************************************************)
EXTENDS Integers, FiniteSets, Sequences, Bags, TLC

\* ------------------------------------------------------------------ bounds
NumSockets == 3          \* socket.io connections that ever exist
MaxTimers == 2           \* pending countdown callbacks at one time

NumRooms == 3            \* rooms of the rooms table that getUserRooms lists
CreatedAts == {1, 2}     \* creation times of those rooms (two rooms may share one)

Users == {"u1", "u2"}
RoomIds == 1..NumRooms
Sockets == 1..NumSockets
NoUser == "none"         \* an absent viewer id / an unmapped socket
Undefined == "undefined" \* a hash field that is not there
Values == {"3", "5"}     \* non-empty vote values
EmptyValue == ""
EmptySocket == 0         \* the socketId '' of a host registered by POST /rooms

\* the user id the JWT of connection c carries (socket.userId)
AuthUser(c) == IF c % 2 = 1 THEN "u1" ELSE "u2"

VARIABLES
    redis,      \* Fast Store: the keys of the room and the socket bindings
    pg,         \* Durable Store: rooms, users, participants, votes
    conn,       \* per connection: "open", "joined" (in the socket.io room), "closing", "closed"
    timers,     \* pending setTimeout callbacks of REVEAL; each remembers whether a reset completed since
    idUsed,     \* generateRoomId has issued the room id
    lastOp,     \* the last roomStore call a handler made and what it returned
    resetClean, \* resetVotes returned true and no castVote / revealVotes was called since
    lastCast,   \* per user: value of the last successful castVote of the round
    calls,      \* per connection: where its JOIN_ROOM / LEAVE_ROOM / disconnect handler stands
    catalog,    \* Durable Store across rooms: the rooms table and the participants table
    listed,     \* the getUserRooms call answered since the tables last changed, and its result
    exposed,    \* history kept by the await-level store calls: the <<user, value>> votes recorded while the room was revealed
    deletion    \* the DELETE /rooms/:id request in flight: its position in deleteRoom and the userIds it read

vars == <<redis, pg, conn, timers, idUsed, lastOp, resetClean, lastCast, calls, catalog, listed, exposed, deletion>>

\* ------------------------------------------------------------ store shapes
AbsentMeta ==
    [present |-> FALSE, name |-> "", adminId |-> NoUser, votingSystem |-> "",
     revealPolicy |-> "", revealed |-> "", enableCountdown |-> FALSE]

AbsentRow ==
    [present |-> FALSE, name |-> "", adminId |-> NoUser, votingSystem |-> "",
     revealed |-> FALSE]

\* what getRoom returns when there is no room
UndefinedRoom ==
    [present |-> FALSE, name |-> "", adminId |-> NoUser, votingSystem |-> "",
     revealPolicy |-> "", revealed |-> FALSE, enableCountdown |-> FALSE]

UndefinedState ==
    [present |-> FALSE, revealed |-> FALSE, adminId |-> NoUser, revealPolicy |-> "",
     users |-> <<>>, votes |-> <<>>]

InitRedis ==
    [meta |-> AbsentMeta,
     users |-> {},
     user_data |-> {},
     votes |-> [u \in Users |-> Undefined],
     sockets |-> [u \in Users |-> {}],
     socketMap |-> [c \in Sockets |-> NoUser]]

InitPg ==
    [room |-> AbsentRow, users |-> {}, participants |-> EmptyBag, votes |-> {}]

\* String(b) and String(x) === 'true'
BoolToString(b) == IF b THEN "true" ELSE "false"
StringIsTrue(s) == s = "true"

\* rows of the votes table of the room for one user
VoteRows(p, u) == {row \in p.votes : row.userId = u}
PgVoteOf(p, u) ==
    IF VoteRows(p, u) = {} THEN Undefined ELSE (CHOOSE row \in VoteRows(p, u) : TRUE).value

\* --------------------------------------------------------------- roomStore
\* Every operator takes the stores (r: Fast Store, p: Durable Store), the call's
\* arguments, and what the stores do during the call: rf, every Fast Store command
\* of the call rejects; pf, every Durable Store write of the call rejects.
\* It returns [redis, pg, ret]; ret "throw" is a rejected promise.

\* createRoom's meta object
MetaOfCreate(name, votingSystem, adminId) ==
    [present |-> TRUE, name |-> name, adminId |-> adminId, votingSystem |-> votingSystem,
     revealPolicy |-> "everyone", revealed |-> "false", enableCountdown |-> FALSE]

\* a rebuilt meta object whose revealPolicy is the host-only one
MetaOfRowHostOnly(row) ==
    [present |-> TRUE, name |-> row.name, adminId |-> row.adminId,
     votingSystem |-> row.votingSystem, revealPolicy |-> "admin",
     revealed |-> BoolToString(row.revealed), enableCountdown |-> FALSE]

\* getRoom's meta object rebuilt from the rooms row
MetaOfRow(row) ==
    [present |-> TRUE, name |-> row.name, adminId |-> row.adminId,
     votingSystem |-> row.votingSystem, revealPolicy |-> "everyone",
     revealed |-> BoolToString(row.revealed), enableCountdown |-> FALSE]

\* getRoom's return value from a meta object
RoomOfMeta(meta) ==
    [present |-> TRUE, name |-> meta.name, adminId |-> meta.adminId,
     votingSystem |-> meta.votingSystem, revealPolicy |-> meta.revealPolicy,
     revealed |-> StringIsTrue(meta.revealed), enableCountdown |-> meta.enableCountdown]

\* createRoom that seeds the Fast Store before the insert
createRoomSeedFirst(r, p, name, votingSystem, adminId, rf, pf) ==
    LET r1 == IF rf THEN r ELSE [r EXCEPT !.meta = MetaOfCreate(name, votingSystem, adminId)]
    IN  IF pf THEN [redis |-> r1, pg |-> p, ret |-> "throw"]
        ELSE [redis |-> r1,
              pg |-> [p EXCEPT !.room = [present |-> TRUE, name |-> name, adminId |-> adminId,
                                         votingSystem |-> votingSystem, revealed |-> FALSE]],
              ret |-> "room"]

createRoom(r, p, name, votingSystem, adminId, rf, pf) ==
    IF pf THEN [redis |-> r, pg |-> p, ret |-> "throw"]
    ELSE [redis |-> IF rf THEN r
                    ELSE [r EXCEPT !.meta = MetaOfCreate(name, votingSystem, adminId)],
          pg |-> [p EXCEPT !.room = [present |-> TRUE, name |-> name, adminId |-> adminId,
                                     votingSystem |-> votingSystem, revealed |-> FALSE]],
          ret |-> "room"]

\* getRoom that answers from the Fast Store only
getRoomNoFallback(r, p, rf) ==
    IF ~rf /\ r.meta.present THEN [redis |-> r, ret |-> RoomOfMeta(r.meta)]
    ELSE [redis |-> r, ret |-> UndefinedRoom]

getRoom(r, p, rf) ==
    LET meta == IF rf THEN AbsentMeta ELSE r.meta
    IN  IF meta.present THEN [redis |-> r, ret |-> RoomOfMeta(meta)]
        ELSE IF ~p.room.present THEN [redis |-> r, ret |-> UndefinedRoom]
        ELSE [redis |-> IF rf THEN r ELSE [r EXCEPT !.meta = MetaOfRow(p.room)],
              ret |-> RoomOfMeta(MetaOfRow(p.room))]

\* an insert where the upsert is: a second row for the same (room, user)
participantInsertOnly(rows, u) == rows (+) SetToBag({u})

\* prisma participant.upsert on the unique key (room_id, user_id); rows is the bag of
\* the user ids of the participants rows of the room
participantUpsert(rows, u) ==
    IF BagIn(u, rows) THEN rows ELSE rows (+) SetToBag({u})

addUser(r, p, u, socketId, rf, pf) ==
    IF rf THEN [redis |-> r, pg |-> p, ret |-> "throw"]
    ELSE
    LET g == getRoom(r, p, rf)
    IN  IF ~r.meta.present /\ ~g.ret.present THEN [redis |-> g.redis, pg |-> p, ret |-> "false"]
        ELSE IF pf THEN [redis |-> g.redis, pg |-> p, ret |-> "throw"]
        ELSE [redis |-> [g.redis EXCEPT !.users = @ \cup {u},
                                        !.user_data = @ \cup {u},
                                        !.sockets[u] = @ \cup {socketId}],
              pg |-> [p EXCEPT !.users = @ \cup {u},
                               !.participants = participantUpsert(@, u)],
              ret |-> "true"]

\* The awaited writes of addUser, in program order: prisma.user.upsert,
\* prisma.participant.upsert, and the exec of the Fast Store pipeline.
AddUserSteps == {"user.upsert", "participant.upsert", "multi.exec"}

\* addUser when the write named by step rejects (the reads and the writes before it
\* succeed): the rejection leaves addUser at once, and nothing undoes the writes
\* already made
addUserFailingAt(r, p, u, socketId, step) ==
    LET g == getRoom(r, p, FALSE)
        p1 == [p EXCEPT !.users = @ \cup {u}]
        p2 == [p1 EXCEPT !.participants = participantUpsert(@, u)]
    IN  IF ~r.meta.present /\ ~g.ret.present THEN [redis |-> g.redis, pg |-> p, ret |-> "false"]
        ELSE IF step = "user.upsert" THEN [redis |-> g.redis, pg |-> p, ret |-> "throw"]
        ELSE IF step = "participant.upsert" THEN [redis |-> g.redis, pg |-> p1, ret |-> "throw"]
        ELSE [redis |-> g.redis, pg |-> p2, ret |-> "throw"]

removeUser(r, p, u, rf) ==
    LET g == getRoom(r, p, rf)
    IN  IF ~g.ret.present THEN [redis |-> g.redis, ret |-> "false"]
        ELSE IF rf THEN [redis |-> g.redis, ret |-> "throw"]
        ELSE [redis |-> [g.redis EXCEPT !.users = @ \ {u}, !.sockets[u] = {}],
              ret |-> "true"]

\* removeSocketFromUser without the scard check: the member is removed at once
removeSocketFromUserNoCount(r, p, u, socketId, rf) ==
    IF rf THEN [redis |-> r, ret |-> "throw"]
    ELSE removeUser([r EXCEPT !.sockets[u] = @ \ {socketId}], p, u, rf)

removeSocketFromUser(r, p, u, socketId, rf) ==
    IF rf THEN [redis |-> r, ret |-> "throw"]
    ELSE
    LET r1 == [r EXCEPT !.sockets[u] = @ \ {socketId}]
    IN  IF Cardinality(r1.sockets[u]) > 0 THEN [redis |-> r1, ret |-> "false"]
        ELSE removeUser(r1, p, u, rf)

getUserBySocketId(r, socketId) ==
    IF r.socketMap[socketId] = NoUser THEN NoUser
    ELSE IF r.socketMap[socketId] \notin r.user_data THEN NoUser
    ELSE r.socketMap[socketId]

mapSocket(r, socketId, u, rf) ==
    IF rf THEN r ELSE [r EXCEPT !.socketMap[socketId] = u]

unmapSocket(r, socketId) ==
    [r EXCEPT !.socketMap[socketId] = NoUser]

\* an insert where the upsert is: a second row for the same (room, user)
UpsertVoteInsertOnly(rows, u, value) == rows \cup {[userId |-> u, value |-> value]}

\* prisma vote.upsert on the unique key (room_id, user_id)
UpsertVote(rows, u, value) ==
    IF \E row \in rows : row.userId = u
    THEN {IF row.userId = u THEN [row EXCEPT !.value = value] ELSE row : row \in rows}
    ELSE rows \cup {[userId |-> u, value |-> value]}

\* castVote that does not look at meta.revealed
castVoteNoRevealedCheck(r, p, u, value, rf, pf) ==
    LET g == getRoom(r, p, rf)
    IN  IF ~g.ret.present THEN [redis |-> g.redis, pg |-> p, ret |-> "false"]
        ELSE IF value = EmptyValue
        THEN [redis |-> [g.redis EXCEPT !.votes[u] = Undefined],
              pg |-> [p EXCEPT !.votes = {row \in @ : row.userId # u}], ret |-> "true"]
        ELSE [redis |-> [g.redis EXCEPT !.votes[u] = value],
              pg |-> [p EXCEPT !.votes = UpsertVote(@, u, value)], ret |-> "true"]

castVote(r, p, u, value, rf, pf) ==
    LET g == getRoom(r, p, rf)
    IN  IF ~g.ret.present \/ g.ret.revealed THEN [redis |-> g.redis, pg |-> p, ret |-> "false"]
        ELSE IF rf THEN [redis |-> g.redis, pg |-> p, ret |-> "throw"]
        ELSE IF value = EmptyValue
        THEN LET r1 == [g.redis EXCEPT !.votes[u] = Undefined]
             IN  IF pf THEN [redis |-> r1, pg |-> p, ret |-> "throw"]
                 ELSE [redis |-> r1,
                       pg |-> [p EXCEPT !.votes = {row \in @ : row.userId # u}],
                       ret |-> "true"]
        ELSE LET r1 == [g.redis EXCEPT !.votes[u] = value]
             IN  IF pf THEN [redis |-> r1, pg |-> p, ret |-> "throw"]
                 ELSE [redis |-> r1,
                       pg |-> [p EXCEPT !.votes = UpsertVote(@, u, value)],
                       ret |-> "true"]

revealVotes(r, p, rf, pf) ==
    IF rf THEN [redis |-> r, pg |-> p, ret |-> "throw"]
    ELSE IF ~r.meta.present THEN [redis |-> r, pg |-> p, ret |-> "false"]
    ELSE LET r1 == [r EXCEPT !.meta.revealed = "true"]
         IN  IF pf \/ ~p.room.present THEN [redis |-> r1, pg |-> p, ret |-> "throw"]
             ELSE [redis |-> r1, pg |-> [p EXCEPT !.room.revealed = TRUE], ret |-> "true"]

\* resetVotes that leaves the rows of the votes table
resetVotesKeepingRows(r, p, rf, pf) ==
    IF rf THEN [redis |-> r, pg |-> p, ret |-> "throw"]
    ELSE IF ~r.meta.present THEN [redis |-> r, pg |-> p, ret |-> "false"]
    ELSE [redis |-> [r EXCEPT !.meta.revealed = "false", !.votes = [u \in Users |-> Undefined]],
          pg |-> [p EXCEPT !.room.revealed = FALSE], ret |-> "true"]

resetVotes(r, p, rf, pf) ==
    IF rf THEN [redis |-> r, pg |-> p, ret |-> "throw"]
    ELSE IF ~r.meta.present THEN [redis |-> r, pg |-> p, ret |-> "false"]
    ELSE LET r1 == [r EXCEPT !.meta.revealed = "false",
                             !.votes = [u \in Users |-> Undefined]]
         IN  IF pf \/ ~p.room.present THEN [redis |-> r1, pg |-> p, ret |-> "throw"]
             ELSE [redis |-> r1,
                   pg |-> [p EXCEPT !.room.revealed = FALSE, !.votes = {}],
                   ret |-> "true"]
\* updates: [name, votingSystem, revealPolicy, enableCountdown], Undefined where the
\* payload has no such field
\* updateSettings that writes name and votingSystem to the Fast Store only
updateSettingsFastOnly(r, p, updates, rf, pf) ==
    LET r1 == IF updates.name # Undefined THEN [r EXCEPT !.meta.name = updates.name] ELSE r
        r2 == IF updates.votingSystem # Undefined
              THEN [r1 EXCEPT !.meta.votingSystem = updates.votingSystem] ELSE r1
        r3 == IF updates.revealPolicy # Undefined
              THEN [r2 EXCEPT !.meta.revealPolicy = updates.revealPolicy] ELSE r2
    IN  IF rf THEN [redis |-> r, pg |-> p, ret |-> "throw"]
        ELSE IF ~r.meta.present THEN [redis |-> r, pg |-> p, ret |-> "false"]
        ELSE [redis |-> r3, pg |-> p, ret |-> "true"]

updateSettings(r, p, updates, rf, pf) ==
    LET hasName == updates.name # Undefined
        hasSystem == updates.votingSystem # Undefined
        hasPolicy == updates.revealPolicy # Undefined
        noRow == pf \/ ~p.room.present
        r1 == IF hasName THEN [r EXCEPT !.meta.name = updates.name] ELSE r
        p1 == IF hasName THEN [p EXCEPT !.room.name = updates.name] ELSE p
        r2 == IF hasSystem THEN [r1 EXCEPT !.meta.votingSystem = updates.votingSystem] ELSE r1
        p2 == IF hasSystem THEN [p1 EXCEPT !.room.votingSystem = updates.votingSystem] ELSE p1
        r3 == IF hasPolicy THEN [r2 EXCEPT !.meta.revealPolicy = updates.revealPolicy] ELSE r2
    IN  IF rf THEN [redis |-> r, pg |-> p, ret |-> "throw"]
        ELSE IF ~r.meta.present THEN [redis |-> r, pg |-> p, ret |-> "false"]
        ELSE IF hasName /\ noRow THEN [redis |-> r1, pg |-> p, ret |-> "throw"]
        ELSE IF hasSystem /\ noRow THEN [redis |-> r2, pg |-> p1, ret |-> "throw"]
        ELSE [redis |-> r3, pg |-> p2, ret |-> "true"]

\* the store of the countdown flag that REVEAL reads as room.enableCountdown: a
\* Fast-Store-only attribute of the meta hash, written when the payload carries it
updateSettingsCountdown(r, updates) ==
    IF updates.enableCountdown # Undefined /\ r.meta.present
    THEN [r EXCEPT !.meta.enableCountdown = (updates.enableCountdown = "true")]
    ELSE r

\* JS truthiness of a hash field / vote value
Truthy(v) == v # Undefined /\ v # EmptyValue

\* OverlayVotes that drops the rows read from the votes table
OverlayVotesDropped(voteMap, p) == voteMap

\* votes.forEach(v => voteMap[v.userId] = v.value)
OverlayVotes(voteMap, p) ==
    [u \in Users |-> IF VoteRows(p, u) # {} THEN PgVoteOf(p, u) ELSE voteMap[u]]

\* VisibleVotes without the viewer filter: every member's value, revealed or not
VisibleVotesLeaking(revealed, userIds, voteMap, forUserId) ==
    [id \in userIds |-> voteMap[id]]

\* VisibleVotes that keeps the viewer filter once revealed
VisibleVotesOwnOnly(revealed, userIds, voteMap, forUserId) ==
    IF forUserId # NoUser /\ Truthy(voteMap[forUserId])
    THEN [id \in {forUserId} |-> voteMap[forUserId]]
    ELSE <<>>

\* the votes record of RoomState (visibility rule)
VisibleVotes(revealed, userIds, voteMap, forUserId) ==
    IF revealed THEN [id \in userIds |-> voteMap[id]]
    ELSE IF forUserId # NoUser /\ Truthy(voteMap[forUserId])
         THEN [id \in {forUserId} |-> voteMap[forUserId]]
         ELSE <<>>

\* ret.users maps each listed member id to hasVoted; ret.votes is the votes record
getRoomState(r, p, forUserId, rf) ==
    LET g == getRoom(r, p, rf)
        r0 == g.redis
        pUsers == {u \in p.users : BagIn(u, p.participants)}
        cold == r0.users = {}
        restore == cold /\ p.participants # EmptyBag /\ pUsers # {}
        missingVotes == ~cold /\ (\E id \in r0.users : ~Truthy(r0.votes[id])) /\ p.votes # {}
        userIds == IF restore THEN pUsers ELSE r0.users
        voteMap == IF restore \/ missingVotes THEN OverlayVotes(r0.votes, p) ELSE r0.votes
        r1 == IF restore
              THEN [r0 EXCEPT !.users = @ \cup pUsers, !.user_data = @ \cup pUsers,
                              !.votes = voteMap]
              ELSE IF missingVotes THEN [r0 EXCEPT !.votes = voteMap]
              ELSE r0
    IN  IF ~g.ret.present THEN [redis |-> r0, threw |-> FALSE, ret |-> UndefinedState]
        ELSE IF rf THEN [redis |-> r0, threw |-> TRUE, ret |-> UndefinedState]
        ELSE [redis |-> r1, threw |-> FALSE,
              ret |-> [present |-> TRUE, revealed |-> g.ret.revealed,
                       adminId |-> g.ret.adminId, revealPolicy |-> g.ret.revealPolicy,
                       users |-> [id \in userIds |-> Truthy(voteMap[id])],
                       votes |-> VisibleVotes(g.ret.revealed, userIds, voteMap, forUserId)]]

\* deleteRoom that answers true whatever the Durable Store did
deleteRoomIgnoringDbError(r, p, rf, pf) ==
    IF rf THEN [redis |-> r, pg |-> p, ret |-> "throw"]
    ELSE [redis |-> [r EXCEPT !.meta = AbsentMeta, !.users = {}, !.user_data = {},
                              !.votes = [u \in Users |-> Undefined],
                              !.sockets = [u \in Users |-> IF u \in r.users THEN {} ELSE @[u]]],
          pg |-> IF pf THEN p
                 ELSE [p EXCEPT !.participants = EmptyBag, !.votes = {}, !.room = AbsentRow],
          ret |-> "true"]

deleteRoom(r, p, rf, pf) ==
    IF rf THEN [redis |-> r, pg |-> p, ret |-> "throw"]
    ELSE
    LET r1 == [r EXCEPT !.meta = AbsentMeta, !.users = {}, !.user_data = {},
                        !.votes = [u \in Users |-> Undefined],
                        !.sockets = [u \in Users |-> IF u \in r.users THEN {} ELSE @[u]]]
    IN  IF pf THEN [redis |-> r1, pg |-> p, ret |-> "false"]
        ELSE IF ~p.room.present
        THEN [redis |-> r1, pg |-> [p EXCEPT !.participants = EmptyBag, !.votes = {}], ret |-> "false"]
        ELSE [redis |-> r1,
              pg |-> [p EXCEPT !.participants = EmptyBag, !.votes = {}, !.room = AbsentRow],
              ret |-> "true"]

\* the members that are not the host
ActiveMembers(members, adminId) == {id \in members : id # adminId}

\* ret is meaningful when threw is FALSE
getActiveUserCount(r, p, rf) ==
    LET g == getRoom(r, p, rf)
    IN  IF ~g.ret.present THEN [redis |-> g.redis, threw |-> FALSE, ret |-> 0]
        ELSE IF rf THEN [redis |-> g.redis, threw |-> TRUE, ret |-> 0]
        ELSE [redis |-> g.redis, threw |-> FALSE,
              ret |-> Cardinality(ActiveMembers(g.redis.users, g.ret.adminId))]

\* ------------------------------------------------- roomStore.getUserRooms
\* getUserRooms reads the rooms and participants tables across rooms: catalog.rooms
\* maps a room id to its row, catalog.participants holds the <<roomId, userId>> rows.
NoRoomRow == [present |-> FALSE, adminId |-> NoUser, createdAt |-> 0]
InitCatalog == [rooms |-> [id \in RoomIds |-> NoRoomRow], participants |-> {}]
NotListed == [userId |-> NoUser, limit |-> 0, offset |-> 0, rooms |-> <<>>, total |-> 0]

RECURSIVE OrderByCreatedAtDesc(_, _)
\* findMany(... orderBy: { createdAt: 'desc' }) over the ids S; equal times by id
OrderByCreatedAtDesc(cat, S) ==
    IF S = {} THEN <<>>
    ELSE LET first == CHOOSE id \in S :
                         \A other \in S :
                            \/ cat.rooms[id].createdAt > cat.rooms[other].createdAt
                            \/ /\ cat.rooms[id].createdAt = cat.rooms[other].createdAt
                               /\ id <= other
         IN  <<first>> \o OrderByCreatedAtDesc(cat, S \ {first})

RECURSIVE SortByCreatedAtDesc(_, _)
\* allRooms.sort((a, b) => b.createdAt - a.createdAt): stable, newest first
SortByCreatedAtDesc(cat, list) ==
    IF list = <<>> THEN <<>>
    ELSE LET newest == CHOOSE i \in 1..Len(list) :
                          /\ \A j \in 1..Len(list) :
                                cat.rooms[list[i]].createdAt >= cat.rooms[list[j]].createdAt
                          /\ \A j \in 1..(i - 1) :
                                cat.rooms[list[j]].createdAt < cat.rooms[list[i]].createdAt
         IN  <<list[newest]>> \o
             SortByCreatedAtDesc(cat, [k \in 1..(Len(list) - 1) |->
                                         IF k < newest THEN list[k] ELSE list[k + 1]])

\* allRooms.slice(offset, offset + limit)
Slice(list, offset, limit) ==
    LET from == IF offset < Len(list) THEN offset ELSE Len(list)
        to == IF offset + limit < Len(list) THEN offset + limit ELSE Len(list)
    IN  IF to <= from THEN <<>> ELSE [k \in 1..(to - from) |-> list[from + k]]

\* rooms where the user is admin
AdminRooms(cat, userId) ==
    OrderByCreatedAtDesc(cat, {id \in RoomIds : cat.rooms[id].present
                                               /\ cat.rooms[id].adminId = userId})

\* the second query without adminId: { not: userId }
ParticipantRoomsWithHosted(cat, userId) ==
    OrderByCreatedAtDesc(cat, {id \in RoomIds : /\ cat.rooms[id].present
                                                /\ <<id, userId>> \in cat.participants})

\* rooms the user joined, excluding the ones where the user is admin
ParticipantRooms(cat, userId) ==
    OrderByCreatedAtDesc(cat, {id \in RoomIds : /\ cat.rooms[id].present
                                                /\ <<id, userId>> \in cat.participants
                                                /\ cat.rooms[id].adminId # userId})

\* rooms: the ids of the page, in order (the activeUsers count read from the Fast
\* Store is not part of the list)
getUserRooms(cat, userId, limit, offset) ==
    LET allRooms == SortByCreatedAtDesc(cat, AdminRooms(cat, userId)
                                             \o ParticipantRooms(cat, userId))
    IN  [rooms |-> Slice(allRooms, offset, limit), total |-> Len(allRooms)]

\* ---------------------------------------------------------------- handlers
Joined(cn) == {c \in Sockets : cn[c] = "joined"}

\* broadcastRoomState followed by notifyRoomAdmin: what they do to the Fast Store
\* (getRoom's repopulation, getRoomState's rehydration for the sockets fetched)
broadcastRoomState(r, p, cn, rf) ==
    LET g == getRoom(r, p, rf)
    IN  IF ~g.ret.present \/ Joined(cn) = {} THEN g.redis
        ELSE getRoomState(g.redis, p, AuthUser(CHOOSE c \in Joined(cn) : TRUE), rf).redis

Op(name, ret) == [op |-> name, ret |-> ret]
NoCast == [u \in Users |-> Undefined]
MarkReset(ts) == [i \in 1..Len(ts) |-> TRUE]

\* POST /rooms
CreateRoomHttp(name, votingSystem, adminId, adminName, rf, pf) ==
    /\ ~idUsed
    /\ idUsed' = TRUE
    /\ LET cr == createRoom(redis, pg, name, votingSystem, adminId, rf, pf)
           au == addUser(cr.redis, cr.pg, adminId, EmptySocket, rf, pf)
       IN  IF cr.ret = "throw" \/ ~adminName
           THEN /\ redis' = cr.redis
                /\ pg' = cr.pg
                /\ lastOp' = Op("createRoom", cr.ret)
           ELSE /\ redis' = au.redis
                /\ pg' = au.pg
                /\ lastOp' = Op("addUser", au.ret)
    /\ UNCHANGED <<conn, timers, resetClean, lastCast, calls, catalog, listed, exposed, deletion>>

\* GET /rooms/:id
GetRoomHttp(rf) ==
    /\ idUsed
    /\ LET g == getRoom(redis, pg, rf)
       IN  /\ redis' = g.redis
           /\ lastOp' = Op("getRoom", IF g.ret.present THEN "room" ELSE "undefined")
    /\ UNCHANGED <<pg, conn, timers, idUsed, resetClean, lastCast, calls, catalog, listed, exposed, deletion>>

\* DELETE /rooms/:id by the host
DeleteRoomHttp(rf, pf) ==
    /\ idUsed
    /\ LET g == getRoom(redis, pg, rf)
           d == deleteRoom(g.redis, pg, rf, pf)
       IN  IF ~g.ret.present
           THEN /\ redis' = g.redis
                /\ lastOp' = Op("getRoom", "undefined")
                /\ UNCHANGED <<pg, conn, resetClean, lastCast>>
           ELSE /\ conn' = [c \in Sockets |-> IF conn[c] = "joined" THEN "closing" ELSE conn[c]]
                /\ redis' = d.redis
                /\ pg' = d.pg
                /\ lastOp' = Op("deleteRoom", d.ret)
                /\ resetClean' = IF d.ret = "true" THEN FALSE ELSE resetClean
                /\ lastCast' = IF d.ret = "true" THEN NoCast ELSE lastCast
    /\ UNCHANGED <<timers, idUsed, calls, catalog, listed, exposed, deletion>>

\* JOIN_ROOM {roomId, userId: u, name} on connection c
JoinRoom(c, u, rf, pf) ==
    /\ conn[c] \in {"open", "joined"}
    /\ LET g == getRoom(redis, pg, rf)
           r1 == mapSocket(g.redis, c, u, rf)
           a == addUser(r1, pg, u, c, rf, pf)
           cn == [conn EXCEPT ![c] = "joined"]
       IN  IF ~g.ret.present
           THEN /\ redis' = g.redis
                /\ lastOp' = Op("getRoom", "undefined")
                /\ UNCHANGED <<pg, conn>>
           ELSE IF a.ret # "true"
           THEN /\ redis' = a.redis
                /\ pg' = a.pg
                /\ lastOp' = Op("addUser", a.ret)
                /\ UNCHANGED conn
           ELSE /\ redis' = broadcastRoomState(a.redis, a.pg, cn, rf)
                /\ pg' = a.pg
                /\ conn' = cn
                /\ lastOp' = Op("addUser", "true")
    /\ UNCHANGED <<timers, idUsed, resetClean, lastCast, calls, catalog, listed, exposed, deletion>>

\* CAST_VOTE {value} on connection c
CastVote(c, value, rf, pf) ==
    /\ conn[c] \in {"open", "joined"}
    /\ LET u == getUserBySocketId(redis, c)
       IN  IF rf \/ u = NoUser
           THEN /\ lastOp' = Op("getUserBySocketId", IF rf THEN "throw" ELSE "undefined")
                /\ UNCHANGED <<redis, pg, resetClean, lastCast>>
           ELSE LET cv == castVote(redis, pg, u, value, rf, pf)
                IN  /\ redis' = IF cv.ret = "true"
                                THEN broadcastRoomState(cv.redis, cv.pg, conn, rf)
                                ELSE cv.redis
                    /\ pg' = cv.pg
                    /\ lastOp' = Op("castVote", cv.ret)
                    /\ resetClean' = FALSE
                    /\ lastCast' = IF cv.ret = "true" THEN [lastCast EXCEPT ![u] = value]
                                   ELSE lastCast
    /\ UNCHANGED <<conn, timers, idUsed, calls, catalog, listed, exposed, deletion>>

\* doReveal of the REVEAL handler
\* doReveal, r being the Fast Store as the getRoom of the caller left it
DoReveal(r, rf, pf) ==
    LET rv == revealVotes(r, pg, rf, pf)
    IN  /\ redis' = IF rv.ret = "true" THEN broadcastRoomState(rv.redis, rv.pg, conn, rf)
                    ELSE rv.redis
        /\ pg' = rv.pg
        /\ lastOp' = Op("revealVotes", rv.ret)
        /\ resetClean' = FALSE
        /\ UNCHANGED lastCast

\* the role check of REVEAL and RESET
\* a role check that lets every member through
MayRevealAnyMember(room, c) == TRUE

MayReveal(room, c) == ~(room.adminId # AuthUser(c) /\ room.revealPolicy # "everyone")

\* REVEAL on connection c
Reveal(c, rf, pf) ==
    /\ conn[c] \in {"open", "joined"}
    /\ LET u == getUserBySocketId(redis, c)
           g == getRoom(redis, pg, rf)
       IN  IF rf \/ u = NoUser
           THEN /\ lastOp' = Op("getUserBySocketId", IF rf THEN "throw" ELSE "undefined")
                /\ UNCHANGED <<redis, pg, timers, resetClean, lastCast>>
           ELSE IF ~g.ret.present \/ ~MayReveal(g.ret, c)
           THEN /\ redis' = g.redis
                /\ lastOp' = Op("getRoom", IF g.ret.present THEN "forbidden" ELSE "undefined")
                /\ UNCHANGED <<pg, timers, resetClean, lastCast>>
           ELSE IF g.ret.enableCountdown
           THEN /\ Len(timers) < MaxTimers
                /\ timers' = Append(timers, FALSE)
                /\ redis' = g.redis
                /\ lastOp' = Op("setTimeout", "COUNTDOWN_START")
                /\ UNCHANGED <<pg, resetClean, lastCast>>
           ELSE /\ DoReveal(g.redis, rf, pf)
                /\ UNCHANGED timers
    /\ UNCHANGED <<conn, idUsed, calls, catalog, listed, exposed, deletion>>

\* a callback that reveals whenever the room is found, revealed or not
TimerFireUnchecked(i, rf, pf) ==
    /\ i \in 1..Len(timers)
    /\ timers' = [j \in 1..(Len(timers) - 1) |-> IF j < i THEN timers[j] ELSE timers[j + 1]]
    /\ LET g == getRoom(redis, pg, rf)
       IN  IF g.ret.present
           THEN DoReveal(g.redis, rf, pf)
           ELSE /\ redis' = g.redis
                /\ lastOp' = Op("getRoom", "undefined")
                /\ UNCHANGED <<pg, resetClean, lastCast>>
    /\ UNCHANGED <<conn, idUsed, calls, catalog, listed, exposed, deletion>>

\* a callback that returns without looking at the room
TimerFireDropped(i, rf, pf) ==
    /\ i \in 1..Len(timers)
    /\ timers' = [j \in 1..(Len(timers) - 1) |-> IF j < i THEN timers[j] ELSE timers[j + 1]]
    /\ lastOp' = Op("getRoom", "undefined")
    /\ UNCHANGED <<redis, pg, resetClean, lastCast>>
    /\ UNCHANGED <<conn, idUsed, calls, catalog, listed, exposed, deletion>>

\* the callback REVEAL handed to setTimeout
TimerFire(i, rf, pf) ==
    /\ i \in 1..Len(timers)
    /\ timers' = [j \in 1..(Len(timers) - 1) |-> IF j < i THEN timers[j] ELSE timers[j + 1]]
    /\ LET g == getRoom(redis, pg, rf)
       IN  IF g.ret.present /\ ~g.ret.revealed
           THEN DoReveal(g.redis, rf, pf)
           ELSE /\ redis' = g.redis
                /\ lastOp' = Op("getRoom", IF g.ret.present THEN "revealed" ELSE "undefined")
                /\ UNCHANGED <<pg, resetClean, lastCast>>
    /\ UNCHANGED <<conn, idUsed, calls, catalog, listed, exposed, deletion>>

\* RESET on connection c
Reset(c, rf, pf) ==
    /\ conn[c] \in {"open", "joined"}
    /\ LET u == getUserBySocketId(redis, c)
           g == getRoom(redis, pg, rf)
           rs == resetVotes(g.redis, pg, rf, pf)
       IN  IF rf \/ u = NoUser
           THEN /\ lastOp' = Op("getUserBySocketId", IF rf THEN "throw" ELSE "undefined")
                /\ UNCHANGED <<redis, pg, timers, resetClean, lastCast>>
           ELSE IF ~g.ret.present \/ ~MayReveal(g.ret, c)
           THEN /\ redis' = g.redis
                /\ lastOp' = Op("getRoom", IF g.ret.present THEN "forbidden" ELSE "undefined")
                /\ UNCHANGED <<pg, timers, resetClean, lastCast>>
           ELSE /\ redis' = IF rs.ret = "true"
                            THEN broadcastRoomState(rs.redis, rs.pg, conn, rf)
                            ELSE rs.redis
                /\ pg' = rs.pg
                /\ lastOp' = Op("resetVotes", rs.ret)
                /\ resetClean' = (rs.ret = "true")
                /\ lastCast' = IF rs.ret = "true" THEN NoCast ELSE lastCast
                /\ timers' = IF rs.ret = "true" THEN MarkReset(timers) ELSE timers
    /\ UNCHANGED <<conn, idUsed, calls, catalog, listed, exposed, deletion>>

\* UPDATE_SETTINGS payload on connection c; storeCountdown: the store also keeps the
\* payload's enableCountdown
UpdateSettingsWith(c, updates, storeCountdown, rf, pf) ==
    /\ conn[c] \in {"open", "joined"}
    /\ LET u == getUserBySocketId(redis, c)
           g == getRoom(redis, pg, rf)
           us == updateSettings(g.redis, pg, updates, rf, pf)
           r1 == IF storeCountdown /\ us.ret = "true"
                 THEN updateSettingsCountdown(us.redis, updates) ELSE us.redis
       IN  IF rf \/ u = NoUser
           THEN /\ lastOp' = Op("getUserBySocketId", IF rf THEN "throw" ELSE "undefined")
                /\ UNCHANGED <<redis, pg>>
           ELSE IF ~g.ret.present \/ g.ret.adminId # AuthUser(c)
           THEN /\ redis' = g.redis
                /\ lastOp' = Op("getRoom", IF g.ret.present THEN "forbidden" ELSE "undefined")
                /\ UNCHANGED pg
           ELSE /\ redis' = IF us.ret = "throw" THEN r1
                            ELSE broadcastRoomState(r1, us.pg, conn, rf)
                /\ pg' = us.pg
                /\ lastOp' = Op("updateSettings", us.ret)
    /\ UNCHANGED <<conn, timers, idUsed, resetClean, lastCast, calls, catalog, listed, exposed, deletion>>

\* UPDATE_SETTINGS as roomStore.updateSettings handles it
UpdateSettings(c, updates, rf, pf) == UpdateSettingsWith(c, updates, FALSE, rf, pf)

\* UPDATE_SETTINGS with the countdown flag kept in the Fast Store
UpdateSettingsCountdown(c, updates, rf, pf) == UpdateSettingsWith(c, updates, TRUE, rf, pf)

\* what LEAVE_ROOM and disconnect do to the stores for connection c once it is in state st
LeaveStores(c, st, rf) ==
    LET u == getUserBySocketId(redis, c)
        rm == removeSocketFromUser(redis, pg, u, c, rf)
        cn == [conn EXCEPT ![c] = st]
    IN  IF rf \/ u = NoUser
        THEN /\ lastOp' = Op("getUserBySocketId", IF rf THEN "throw" ELSE "undefined")
             /\ UNCHANGED redis
        ELSE /\ redis' = IF rm.ret = "true"
                         THEN broadcastRoomState(unmapSocket(rm.redis, c), pg, cn, rf)
                         ELSE unmapSocket(rm.redis, c)
             /\ lastOp' = Op("removeSocketFromUser", rm.ret)

\* LEAVE_ROOM on connection c
LeaveRoom(c, rf) ==
    /\ conn[c] \in {"open", "joined"}
    /\ LeaveStores(c, "open", rf)
    /\ conn' = IF rf \/ getUserBySocketId(redis, c) = NoUser THEN conn
               ELSE [conn EXCEPT ![c] = "open"]
    /\ UNCHANGED <<pg, timers, idUsed, resetClean, lastCast, calls, catalog, listed, exposed, deletion>>

\* disconnect of connection c (by the client, or forced by DELETE /rooms/:id)
Disconnect(c, rf) ==
    /\ conn[c] \in {"open", "joined", "closing"}
    /\ LeaveStores(c, "closed", rf)
    /\ conn' = [conn EXCEPT ![c] = "closed"]
    /\ UNCHANGED <<pg, timers, idUsed, resetClean, lastCast, calls, catalog, listed, exposed, deletion>>

\* a key of the room leaves the Fast Store (EXPIRE ROOM_TTL, or eviction)
EvictKeys == {"meta", "members", "votes"}
Evict(k) ==
    /\ idUsed
    /\ \/ k = "meta" /\ redis.meta.present /\ redis' = [redis EXCEPT !.meta = AbsentMeta]
       \/ k = "members" /\ redis.users # {}
          /\ redis' = [redis EXCEPT !.users = {}, !.user_data = {}]
       \/ k = "votes" /\ redis.votes # NoCast /\ redis' = [redis EXCEPT !.votes = NoCast]
    /\ lastOp' = Op("expire", k)
    /\ UNCHANGED <<pg, conn, timers, idUsed, resetClean, lastCast, calls, catalog, listed, exposed, deletion>>

\* ------------------------------------------- handlers, one await at a time
\* JOIN_ROOM, LEAVE_ROOM and disconnect of the connections run concurrently: every
\* await of a handler is a point where the handler of another connection may run.
Idle == [pc |-> "idle", user |-> NoUser, removed |-> FALSE]
At(c, pc) == calls[c].pc = pc
Goto(c, pc) == calls' = [calls EXCEPT ![c].pc = pc]

\* JOIN_ROOM up to addUser's pipeline: getRoom, mapSocket, exists, the two upserts
JoinBegin(c, u) ==
    /\ At(c, "idle") /\ conn[c] \in {"open", "joined"}
    /\ LET g == getRoom(redis, pg, FALSE)
       IN  IF ~g.ret.present
           THEN /\ redis' = g.redis
                /\ lastOp' = Op("getRoom", "undefined")
                /\ UNCHANGED <<pg, calls>>
           ELSE /\ redis' = mapSocket(g.redis, c, u, FALSE)
                /\ pg' = [pg EXCEPT !.users = @ \cup {u},
                                     !.participants = participantUpsert(@, u)]
                /\ lastOp' = Op("participant.upsert", "done")
                /\ calls' = [calls EXCEPT ![c] = [pc |-> "joinExec", user |-> u, removed |-> FALSE]]
    /\ UNCHANGED <<conn, timers, idUsed, resetClean, lastCast, catalog, listed, exposed, deletion>>

\* addUser's multi.exec(), then socket.join
JoinExec(c) ==
    /\ At(c, "joinExec")
    /\ LET u == calls[c].user
       IN  redis' = [redis EXCEPT !.users = @ \cup {u}, !.user_data = @ \cup {u},
                                  !.sockets[u] = @ \cup {c}]
    /\ conn' = [conn EXCEPT ![c] = IF @ = "closed" THEN "closed" ELSE "joined"]
    /\ lastOp' = Op("addUser", "true")
    /\ Goto(c, "broadcast")
    /\ UNCHANGED <<pg, timers, idUsed, resetClean, lastCast, catalog, listed, exposed, deletion>>

\* the broadcastRoomState and notifyRoomAdmin that end a handler
Broadcast(c) ==
    /\ At(c, "broadcast")
    /\ redis' = broadcastRoomState(redis, pg, conn, FALSE)
    /\ lastOp' = Op("broadcastRoomState", "done")
    /\ calls' = [calls EXCEPT ![c] = Idle]
    /\ UNCHANGED <<pg, conn, timers, idUsed, resetClean, lastCast, catalog, listed, exposed, deletion>>

\* LEAVE_ROOM (closing = FALSE) or disconnect (closing = TRUE): getUserBySocketId
LeaveBegin(c, closing) ==
    /\ At(c, "idle")
    /\ conn[c] \in {"open", "joined"}
    /\ conn' = IF closing THEN [conn EXCEPT ![c] = "closed"] ELSE conn
    /\ LET u == getUserBySocketId(redis, c)
       IN  /\ calls' = IF u = NoUser THEN calls
                       ELSE [calls EXCEPT ![c] = [pc |-> "srem", user |-> u, removed |-> FALSE]]
           /\ lastOp' = Op("getUserBySocketId", IF u = NoUser THEN "undefined" ELSE "user")
    /\ UNCHANGED <<redis, pg, timers, idUsed, resetClean, lastCast, catalog, listed, exposed, deletion>>

\* removeSocketFromUser: redis.srem(socketSetKey, socketId)
LeaveSrem(c) ==
    /\ At(c, "srem")
    /\ redis' = [redis EXCEPT !.sockets[calls[c].user] = @ \ {c}]
    /\ lastOp' = Op("srem", "done")
    /\ Goto(c, "scard")
    /\ UNCHANGED <<pg, conn, timers, idUsed, resetClean, lastCast, catalog, listed, exposed, deletion>>

\* removeSocketFromUser: redis.scard(socketSetKey) and the test on it
LeaveScard(c) ==
    /\ At(c, "scard")
    /\ IF Cardinality(redis.sockets[calls[c].user]) > 0
       THEN Goto(c, "unmap") /\ lastOp' = Op("removeSocketFromUser", "false")
       ELSE Goto(c, "removeUser") /\ lastOp' = Op("scard", "0")
    /\ UNCHANGED <<redis, pg, conn, timers, idUsed, resetClean, lastCast, catalog, listed, exposed, deletion>>

\* removeUser: getRoom
RemoveGetRoom(c) ==
    /\ At(c, "removeUser")
    /\ LET g == getRoom(redis, pg, FALSE)
       IN  /\ redis' = g.redis
           /\ IF g.ret.present
              THEN Goto(c, "removeExec") /\ lastOp' = Op("getRoom", "room")
              ELSE Goto(c, "unmap") /\ lastOp' = Op("removeSocketFromUser", "false")
    /\ UNCHANGED <<pg, conn, timers, idUsed, resetClean, lastCast, catalog, listed, exposed, deletion>>

\* removeUser: multi.exec() of srem users and del sockets
RemoveExec(c) ==
    /\ At(c, "removeExec")
    /\ LET u == calls[c].user
       IN  redis' = [redis EXCEPT !.users = @ \ {u}, !.sockets[u] = {}]
    /\ lastOp' = Op("removeSocketFromUser", "true")
    /\ calls' = [calls EXCEPT ![c].pc = "unmap", ![c].removed = TRUE]
    /\ UNCHANGED <<pg, conn, timers, idUsed, resetClean, lastCast, catalog, listed, exposed, deletion>>

\* unmapSocket, socket.leave, and on to the broadcast when the member was removed
LeaveUnmap(c) ==
    /\ At(c, "unmap")
    /\ redis' = unmapSocket(redis, c)
    /\ conn' = [conn EXCEPT ![c] = IF @ = "joined" THEN "open" ELSE @]
    /\ lastOp' = Op("unmapSocket", "done")
    /\ calls' = [calls EXCEPT ![c] = IF calls[c].removed
                                     THEN [pc |-> "broadcast", user |-> NoUser, removed |-> FALSE]
                                     ELSE Idle]
    /\ UNCHANGED <<pg, timers, idUsed, resetClean, lastCast, catalog, listed, exposed, deletion>>

\* no DELETE request in flight
NoDeletion == [pc |-> "idle", userIds |-> {}]

\* ----------------------------------------------------------- specification
RoomNames == {"Sprint 1"}
VotingSystems == {"fibonacci"}
Hosts == {"u1"}
Viewers == Users \cup {NoUser}

Init ==
    /\ redis = InitRedis
    /\ pg = InitPg
    /\ conn = [c \in Sockets |-> "open"]
    /\ timers = <<>>
    /\ idUsed = FALSE
    /\ lastOp = Op("none", "none")
    /\ resetClean = FALSE
    /\ lastCast = NoCast
    /\ calls = [c \in Sockets |-> Idle]
    /\ catalog = InitCatalog
    /\ listed = NotListed
    /\ exposed = {}
    /\ deletion = NoDeletion

Next ==
    \/ \E n \in RoomNames, vs \in VotingSystems, a \in Hosts :
          CreateRoomHttp(n, vs, a, FALSE, FALSE, FALSE)
    \/ GetRoomHttp(FALSE)
    \/ DeleteRoomHttp(FALSE, FALSE)
    \/ \E c \in Sockets : JoinRoom(c, AuthUser(c), FALSE, FALSE)
    \/ \E c \in Sockets, v \in Values \cup {EmptyValue} : CastVote(c, v, FALSE, FALSE)
    \/ \E c \in Sockets : Reveal(c, FALSE, FALSE)
    \/ \E c \in Sockets : Reset(c, FALSE, FALSE)
    \/ \E c \in Sockets : LeaveRoom(c, FALSE)
    \/ \E c \in Sockets : Disconnect(c, FALSE)
    \/ \E k \in EvictKeys : Evict(k)

Spec == Init /\ [][Next]_vars
\* JOIN_ROOM when one write of addUser rejects: the catch of the handler emits ERROR
JoinRoomFailingAt(c, u, step) ==
    /\ conn[c] \in {"open", "joined"}
    /\ LET g == getRoom(redis, pg, FALSE)
           r1 == mapSocket(g.redis, c, u, FALSE)
           a == addUserFailingAt(r1, pg, u, c, step)
       IN  IF ~g.ret.present
           THEN /\ redis' = g.redis
                /\ lastOp' = Op("getRoom", "undefined")
                /\ UNCHANGED pg
           ELSE /\ redis' = a.redis
                /\ pg' = a.pg
                /\ lastOp' = Op("addUser", a.ret)
    /\ UNCHANGED <<conn, timers, idUsed, resetClean, lastCast, calls, catalog, listed, exposed, deletion>>

\* Joining and leaving, where a write of addUser may reject.
NextJoin ==
    \/ \E n \in RoomNames, vs \in VotingSystems, a \in Hosts :
          CreateRoomHttp(n, vs, a, FALSE, FALSE, FALSE)
    \/ DeleteRoomHttp(FALSE, FALSE)
    \/ \E c \in Sockets : JoinRoom(c, AuthUser(c), FALSE, FALSE)
    \/ \E c \in Sockets, step \in AddUserSteps : JoinRoomFailingAt(c, AuthUser(c), step)
    \/ \E c \in Sockets : LeaveRoom(c, FALSE)
    \/ \E k \in EvictKeys : Evict(k)

SpecJoin == Init /\ [][NextJoin]_vars

\* Handlers of NumFailSockets connections with store failures: during a call the Fast
\* Store may reject every command (rf) and the Durable Store every write (pf).
NumFailSockets == 2
FailSockets == 1..NumFailSockets
NextFail ==
    \/ \E n \in RoomNames, vs \in VotingSystems, a \in Hosts, rf, pf \in BOOLEAN :
          CreateRoomHttp(n, vs, a, FALSE, rf, pf)
    \/ \E rf \in BOOLEAN : GetRoomHttp(rf)
    \/ \E rf, pf \in BOOLEAN : DeleteRoomHttp(rf, pf)
    \/ \E c \in FailSockets, rf, pf \in BOOLEAN : JoinRoom(c, AuthUser(c), rf, pf)
    \/ \E c \in FailSockets, v \in Values \cup {EmptyValue}, rf, pf \in BOOLEAN :
          CastVote(c, v, rf, pf)
    \/ \E c \in FailSockets, rf, pf \in BOOLEAN : Reveal(c, rf, pf)
    \/ \E c \in FailSockets, rf, pf \in BOOLEAN : Reset(c, rf, pf)
    \/ Evict("meta")

SpecFail == Init /\ [][NextFail]_vars

\* Countdown reveal: the host enables the countdown and may keep the reveal to
\* themselves, REVEAL arms the timer.
CountdownPayloads ==
    [name : {Undefined}, votingSystem : {Undefined}, revealPolicy : {Undefined, "admin"},
     enableCountdown : {"true", "false"}]

NextCountdown ==
    \/ \E n \in RoomNames, vs \in VotingSystems, a \in Hosts :
          CreateRoomHttp(n, vs, a, FALSE, FALSE, FALSE)
    \/ DeleteRoomHttp(FALSE, FALSE)
    \/ \E c \in Sockets : JoinRoom(c, AuthUser(c), FALSE, FALSE)
    \/ \E c \in Sockets, v \in Values \cup {EmptyValue} : CastVote(c, v, FALSE, FALSE)
    \/ \E c \in Sockets, u \in CountdownPayloads : UpdateSettingsCountdown(c, u, FALSE, FALSE)
    \/ \E c \in Sockets : Reveal(c, FALSE, FALSE)
    \/ \E c \in Sockets : Reset(c, FALSE, FALSE)
    \/ \E i \in 1..MaxTimers : TimerFire(i, FALSE, FALSE)
    \/ Evict("meta")

SpecCountdown == Init /\ [][NextCountdown]_vars

\* The countdown of NumFailSockets connections, where the timers of setTimeout elapse:
\* a callback that is armed fires.
NextCountdownLive ==
    \/ \E n \in RoomNames, vs \in VotingSystems, a \in Hosts :
          CreateRoomHttp(n, vs, a, FALSE, FALSE, FALSE)
    \/ DeleteRoomHttp(FALSE, FALSE)
    \/ \E c \in FailSockets : JoinRoom(c, AuthUser(c), FALSE, FALSE)
    \/ \E c \in FailSockets, u \in CountdownPayloads :
          UpdateSettingsCountdown(c, u, FALSE, FALSE)
    \/ \E c \in FailSockets : Reveal(c, FALSE, FALSE)
    \/ \E c \in FailSockets : Reset(c, FALSE, FALSE)
    \/ \E i \in 1..MaxTimers : TimerFire(i, FALSE, FALSE)
    \/ Evict("meta")

SpecCountdownLive ==
    /\ Init /\ [][NextCountdownLive]_vars
    /\ WF_vars(\E i \in 1..MaxTimers : TimerFire(i, FALSE, FALSE))

\* Settings: UPDATE_SETTINGS payloads carrying any subset of the four fields
SettingsPayloads ==
    [name : {Undefined, "Sprint 2"}, votingSystem : {Undefined, "tshirts"},
     revealPolicy : {Undefined, "admin"}, enableCountdown : {Undefined, "true"}]

NextSettings ==
    \/ \E n \in RoomNames, vs \in VotingSystems, a \in Hosts :
          CreateRoomHttp(n, vs, a, FALSE, FALSE, FALSE)
    \/ \E c \in FailSockets : JoinRoom(c, AuthUser(c), FALSE, FALSE)
    \/ \E c \in FailSockets, v \in Values : CastVote(c, v, FALSE, FALSE)
    \/ \E c \in FailSockets : Reveal(c, FALSE, FALSE)
    \/ \E c \in FailSockets, u \in SettingsPayloads : UpdateSettings(c, u, FALSE, FALSE)
    \/ Evict("meta")

SpecSettings == Init /\ [][NextSettings]_vars

\* Listing: rooms are created and joined across the Durable Store, GET /rooms/my
\* lists them for a user
\* ids label the rooms in the order of their creation; the clock does not run backwards
InsertRoom(id, adminId, createdAt) ==
    /\ ~catalog.rooms[id].present
    /\ \A other \in RoomIds : other < id => catalog.rooms[other].present
    /\ \A other \in RoomIds : catalog.rooms[other].createdAt <= createdAt
    /\ catalog' = [catalog EXCEPT !.rooms[id] = [present |-> TRUE, adminId |-> adminId,
                                                 createdAt |-> createdAt]]
    /\ listed' = NotListed
    /\ UNCHANGED <<redis, pg, conn, timers, idUsed, lastOp, resetClean, lastCast, calls, exposed, deletion>>

UpsertParticipant(id, userId) ==
    /\ catalog.rooms[id].present
    /\ catalog' = [catalog EXCEPT !.participants = @ \cup {<<id, userId>>}]
    /\ listed' = NotListed
    /\ UNCHANGED <<redis, pg, conn, timers, idUsed, lastOp, resetClean, lastCast, calls, exposed, deletion>>

GetMyRoomsHttp(userId, limit, offset) ==
    /\ LET res == getUserRooms(catalog, userId, limit, offset)
       IN  listed' = [userId |-> userId, limit |-> limit, offset |-> offset,
                      rooms |-> res.rooms, total |-> res.total]
    /\ UNCHANGED <<redis, pg, conn, timers, idUsed, lastOp, resetClean, lastCast, calls, catalog, exposed, deletion>>

PageLimits == {2}
PageOffsets == {0, 1}

NextListing ==
    \/ \E id \in RoomIds, a \in Users, t \in CreatedAts : InsertRoom(id, a, t)
    \/ \E id \in RoomIds, u \in Users : UpsertParticipant(id, u)
    \/ \E u \in Users, l \in PageLimits, o \in PageOffsets : GetMyRoomsHttp(u, l, o)

SpecListing == Init /\ [][NextListing]_vars

\* Presence under interleaving: a room, and the JOIN_ROOM / LEAVE_ROOM / disconnect
\* handlers of the connections run one await at a time.
NextPresence ==
    \/ \E n \in RoomNames, vs \in VotingSystems, a \in Hosts :
          CreateRoomHttp(n, vs, a, FALSE, FALSE, FALSE)
    \/ \E c \in Sockets : JoinBegin(c, AuthUser(c))
    \/ \E c \in Sockets : JoinExec(c)
    \/ \E c \in Sockets : Broadcast(c)
    \/ \E c \in Sockets, closing \in BOOLEAN : LeaveBegin(c, closing)
    \/ \E c \in Sockets : LeaveSrem(c)
    \/ \E c \in Sockets : LeaveScard(c)
    \/ \E c \in Sockets : RemoveGetRoom(c)
    \/ \E c \in Sockets : RemoveExec(c)
    \/ \E c \in Sockets : LeaveUnmap(c)

SpecPresence == Init /\ [][NextPresence]_vars

\* -------------------------------------------------- history of revealed votes
\* the votes on record in either store while either store says the room is revealed
RecordedWhileRevealed(r, p) ==
    IF (r.meta.present /\ StringIsTrue(r.meta.revealed)) \/ (p.room.present /\ p.room.revealed)
    THEN {<<u, r.votes[u]>> : u \in {w \in Users : Truthy(r.votes[w])}}
            \cup {<<row.userId, row.value>> : row \in p.votes}
    ELSE {}

\* the step of a store call adds what its writes put on record while revealed
Expose == exposed' = exposed \cup RecordedWhileRevealed(redis', pg')

\* ---------------------------------------------------- castVote, await by await
\* The awaits of roomStore.castVote are steps of their own, so the calls of two
\* connections interleave. A call starts only while no call of the same user is in
\* flight (the calls in flight are of different users), and the other handlers run
\* while no call is in flight.
CastPcs == {"cast.redis", "cast.prisma"}
CastInFlight(u) == \E d \in Sockets : calls[d].pc \in CastPcs /\ calls[d].user = u
NoCastInFlight == \A d \in Sockets : calls[d].pc \notin CastPcs

\* a write of the whole vote hash where the write of one field is
hsetVoteWholeHash(votes, u, value) ==
    [w \in Users |-> IF w = u THEN (IF value = EmptyValue THEN Undefined ELSE value)
                     ELSE Undefined]

\* redis.hset / redis.hdel of one field of the vote hash
hsetVote(votes, u, value) ==
    [votes EXCEPT ![u] = IF value = EmptyValue THEN Undefined ELSE value]

\* castVote(roomId, userId, value), called for the user of connection c:
\* await this.getRoom(roomId), and the test of meta.revealed
CastGetRoom(c, value) ==
    /\ At(c, "idle") /\ conn[c] \in {"open", "joined"}
    /\ getUserBySocketId(redis, c) # NoUser
    /\ ~CastInFlight(getUserBySocketId(redis, c))
    /\ LET g == getRoom(redis, pg, FALSE)
       IN  /\ redis' = g.redis
           /\ IF ~g.ret.present \/ g.ret.revealed
              THEN /\ lastOp' = Op("castVote", "false")
                   /\ UNCHANGED calls
              ELSE /\ lastOp' = Op("getRoom", "room")
                   /\ calls' = [calls EXCEPT ![c] =
                                   [pc |-> "cast.redis", user |-> getUserBySocketId(redis, c),
                                    removed |-> FALSE, value |-> value]]
    /\ UNCHANGED <<pg, conn, timers, idUsed, resetClean, lastCast, catalog, listed, exposed, deletion>>

\* castVote: await redis.hset / redis.hdel
CastRedis(c) ==
    /\ At(c, "cast.redis")
    /\ redis' = [redis EXCEPT !.votes = hsetVote(@, calls[c].user, calls[c].value)]
    /\ lastOp' = Op("hset", "done")
    /\ Goto(c, "cast.prisma")
    /\ UNCHANGED <<pg, conn, timers, idUsed, resetClean, lastCast, catalog, listed, deletion>>
    /\ Expose

\* castVote: await prisma.vote.upsert / deleteMany, and return true
CastPrisma(c) ==
    /\ At(c, "cast.prisma")
    /\ LET u == calls[c].user
           value == calls[c].value
       IN  /\ pg' = [pg EXCEPT !.votes = IF value = EmptyValue
                                         THEN {row \in @ : row.userId # u}
                                         ELSE UpsertVote(@, u, value)]
           /\ lastCast' = [lastCast EXCEPT ![u] = value]
    /\ lastOp' = Op("castVote", "true")
    /\ resetClean' = FALSE
    /\ calls' = [calls EXCEPT ![c] = Idle]
    /\ UNCHANGED <<redis, conn, timers, idUsed, catalog, listed, deletion>>
    /\ Expose

\* JOIN_ROOM while no castVote call is in flight
JoinRoomBetweenCasts(c) ==
    NoCastInFlight /\ JoinRoom(c, AuthUser(c), FALSE, FALSE)

NextVoting ==
    \/ \E n \in RoomNames, vs \in VotingSystems, a \in Hosts :
          CreateRoomHttp(n, vs, a, FALSE, FALSE, FALSE)
    \/ \E c \in Sockets : JoinRoomBetweenCasts(c)
    \/ \E c \in Sockets, v \in Values \cup {EmptyValue} : CastGetRoom(c, v)
    \/ \E c \in Sockets : CastRedis(c)
    \/ \E c \in Sockets : CastPrisma(c)
    \/ Evict("meta")

SpecVoting == Init /\ [][NextVoting]_vars

\* ------------------------------------- revealVotes and resetVotes, await by await
\* A call is made on behalf of a connection c; calls[c] holds its position. The
\* handlers that set the scene run while no call is in flight.
Quiet == \A d \in Sockets : At(d, "idle")

JoinRoomQuiet(c) == Quiet /\ JoinRoom(c, AuthUser(c), FALSE, FALSE)

CastVoteQuiet(c, value) == Quiet /\ CastVote(c, value, FALSE, FALSE)

\* a call at pc of the store function, with nothing else to remember
CallAt(pc) == [pc |-> pc, user |-> NoUser, removed |-> FALSE]

\* revealVotes: await redis.exists(meta)
RevealExists(c) ==
    /\ At(c, "idle") /\ conn[c] \in {"open", "joined"} /\ idUsed
    /\ IF redis.meta.present
       THEN /\ calls' = [calls EXCEPT ![c] = CallAt("reveal.hset")]
            /\ lastOp' = Op("exists", "1")
       ELSE /\ lastOp' = Op("revealVotes", "false")
            /\ UNCHANGED calls
    /\ UNCHANGED <<redis, pg, conn, timers, idUsed, resetClean, lastCast, catalog, listed, exposed, deletion>>

\* revealVotes: await redis.hset(meta, { revealed: 'true' })
RevealHset(c) ==
    /\ At(c, "reveal.hset")
    /\ redis' = [redis EXCEPT !.meta.present = TRUE, !.meta.revealed = "true"]
    /\ lastOp' = Op("hset", "revealed")
    /\ Goto(c, "reveal.update")
    /\ UNCHANGED <<pg, conn, timers, idUsed, resetClean, lastCast, catalog, listed, deletion>>
    /\ Expose

\* revealVotes: await prisma.room.update({ revealed: true }), and return true
RevealUpdate(c) ==
    /\ At(c, "reveal.update")
    /\ IF pg.room.present
       THEN /\ pg' = [pg EXCEPT !.room.revealed = TRUE]
            /\ lastOp' = Op("revealVotes", "true")
       ELSE /\ lastOp' = Op("revealVotes", "throw")
            /\ UNCHANGED pg
    /\ calls' = [calls EXCEPT ![c] = Idle]
    /\ UNCHANGED <<redis, conn, timers, idUsed, resetClean, lastCast, catalog, listed, deletion>>
    /\ Expose

\* resetVotes: await redis.exists(meta)
ResetExists(c) ==
    /\ At(c, "idle") /\ conn[c] \in {"open", "joined"} /\ idUsed
    /\ IF redis.meta.present
       THEN /\ calls' = [calls EXCEPT ![c] = CallAt("reset.exec")]
            /\ lastOp' = Op("exists", "1")
       ELSE /\ lastOp' = Op("resetVotes", "false")
            /\ UNCHANGED calls
    /\ UNCHANGED <<redis, pg, conn, timers, idUsed, resetClean, lastCast, catalog, listed, exposed, deletion>>

\* resetVotes: await multi.exec() of hset(meta, { revealed: 'false' }) and del(votes)
ResetExec(c) ==
    /\ At(c, "reset.exec")
    /\ redis' = [redis EXCEPT !.meta.present = TRUE, !.meta.revealed = "false",
                              !.votes = NoCast]
    /\ lastOp' = Op("multi.exec", "reset")
    /\ Goto(c, "reset.update")
    /\ UNCHANGED <<pg, conn, timers, idUsed, resetClean, lastCast, catalog, listed, exposed, deletion>>

\* resetVotes: await prisma.room.update({ revealed: false })
ResetUpdate(c) ==
    /\ At(c, "reset.update")
    /\ IF pg.room.present
       THEN /\ pg' = [pg EXCEPT !.room.revealed = FALSE]
            /\ lastOp' = Op("room.update", "done")
            /\ Goto(c, "reset.deleteMany")
       ELSE /\ lastOp' = Op("resetVotes", "throw")
            /\ calls' = [calls EXCEPT ![c] = Idle]
            /\ UNCHANGED pg
    /\ UNCHANGED <<redis, conn, timers, idUsed, resetClean, lastCast, catalog, listed, exposed, deletion>>

\* resetVotes: await prisma.vote.deleteMany({ roomId }), and return true
ResetDeleteMany(c) ==
    /\ At(c, "reset.deleteMany")
    /\ pg' = [pg EXCEPT !.votes = {}]
    /\ lastCast' = NoCast
    /\ lastOp' = Op("resetVotes", "true")
    /\ calls' = [calls EXCEPT ![c] = Idle]
    /\ UNCHANGED <<redis, conn, timers, idUsed, resetClean, catalog, listed, exposed, deletion>>

NextRevealReset ==
    \/ \E n \in RoomNames, vs \in VotingSystems, a \in Hosts :
          CreateRoomHttp(n, vs, a, FALSE, FALSE, FALSE)
    \/ \E c \in FailSockets : JoinRoomQuiet(c)
    \/ \E c \in FailSockets, v \in Values : CastVoteQuiet(c, v)
    \/ \E c \in FailSockets : RevealExists(c)
    \/ \E c \in FailSockets : RevealHset(c)
    \/ \E c \in FailSockets : RevealUpdate(c)
    \/ \E c \in FailSockets : ResetExists(c)
    \/ \E c \in FailSockets : ResetExec(c)
    \/ \E c \in FailSockets : ResetUpdate(c)
    \/ \E c \in FailSockets : ResetDeleteMany(c)

SpecRevealReset == Init /\ [][NextRevealReset]_vars

\* ------------------------------------------------ getRoomState, await by await
\* getRoomState(roomId, forUserId) called for the viewer of connection c. The call
\* keeps what it has read so far in calls[c]: meta.revealed, userIds, voteMap and
\* the rows of vote.findMany. The restore of an empty member set from the Durable
\* Store is one step with the read of the vote hash.
StateCall(pc, viewer, revealed, userIds, voteMap, pgVotes) ==
    [pc |-> pc, user |-> viewer, removed |-> FALSE, revealed |-> revealed,
     userIds |-> userIds, voteMap |-> voteMap, pgVotes |-> pgVotes]

\* the RoomState the call of connection c returns
Snapshot(c, userIds, voteMap) ==
    [viewer |-> calls[c].user, revealed |-> calls[c].revealed,
     users |-> [id \in userIds |-> Truthy(voteMap[id])],
     votes |-> VisibleVotes(calls[c].revealed, userIds, voteMap, calls[c].user)]

StateReturn(c, userIds, voteMap) ==
    /\ lastOp' = Op("getRoomState", Snapshot(c, userIds, voteMap))
    /\ calls' = [calls EXCEPT ![c] = Idle]

\* getRoomState: const meta = await this.getRoom(roomId)
StateGetRoom(c) ==
    /\ At(c, "idle") /\ conn[c] \in {"open", "joined"} /\ idUsed
    /\ LET g == getRoom(redis, pg, FALSE)
       IN  /\ redis' = g.redis
           /\ IF ~g.ret.present
              THEN /\ lastOp' = Op("getRoomState.undefined", "undefined")
                   /\ UNCHANGED calls
              ELSE /\ lastOp' = Op("getRoom", "room")
                   /\ calls' = [calls EXCEPT ![c] =
                                   StateCall("state.smembers", AuthUser(c), g.ret.revealed,
                                             {}, NoCast, {})]
    /\ UNCHANGED <<pg, conn, timers, idUsed, resetClean, lastCast, catalog, listed, deletion>>
    /\ Expose

\* getRoomState: userIds = await redis.smembers(users)
StateSmembers(c) ==
    /\ At(c, "state.smembers")
    /\ calls' = [calls EXCEPT ![c].pc = "state.hgetall", ![c].userIds = redis.users]
    /\ lastOp' = Op("smembers", "done")
    /\ UNCHANGED <<redis, pg, conn, timers, idUsed, resetClean, lastCast, catalog, listed, exposed, deletion>>

\* getRoomState: voteMap = await redis.hgetall(votes), then the branch on userIds:
\* an empty member set is restored from the Durable Store, a member without a vote
\* sends the call to vote.findMany, otherwise the call returns
StateHgetall(c) ==
    /\ At(c, "state.hgetall")
    /\ LET userIds == calls[c].userIds
           voteMap == redis.votes
           pUsers == {u \in pg.users : BagIn(u, pg.participants)}
           restore == pg.participants # EmptyBag /\ pUsers # {}
       IN  IF userIds = {}
           THEN IF restore
                THEN /\ redis' = [redis EXCEPT !.users = @ \cup pUsers,
                                               !.user_data = @ \cup pUsers,
                                               !.votes = OverlayVotes(voteMap, pg)]
                     /\ StateReturn(c, pUsers, OverlayVotes(voteMap, pg))
                ELSE /\ StateReturn(c, userIds, voteMap)
                     /\ UNCHANGED redis
           ELSE IF \E id \in userIds : ~Truthy(voteMap[id])
                THEN /\ calls' = [calls EXCEPT ![c].pc = "state.findMany",
                                               ![c].voteMap = voteMap]
                     /\ lastOp' = Op("hgetall", "missingVotes")
                     /\ UNCHANGED redis
                ELSE /\ StateReturn(c, userIds, voteMap)
                     /\ UNCHANGED redis
    /\ UNCHANGED <<pg, conn, timers, idUsed, resetClean, lastCast, catalog, listed, deletion>>
    /\ Expose

\* getRoomState: pgVotes = await prisma.vote.findMany({ where: { roomId } })
StateFindMany(c) ==
    /\ At(c, "state.findMany")
    /\ IF pg.votes = {}
       THEN StateReturn(c, calls[c].userIds, calls[c].voteMap)
       ELSE /\ calls' = [calls EXCEPT ![c].pc = "state.exec", ![c].pgVotes = pg.votes]
            /\ lastOp' = Op("vote.findMany", "rows")
    /\ UNCHANGED <<redis, pg, conn, timers, idUsed, resetClean, lastCast, catalog, listed, exposed, deletion>>

\* getRoomState: await multi.exec() of the hset of every row read, and the return
StateExec(c) ==
    /\ At(c, "state.exec")
    /\ LET rows == [votes |-> calls[c].pgVotes]
       IN  /\ redis' = [redis EXCEPT !.votes = OverlayVotes(@, rows)]
           /\ StateReturn(c, calls[c].userIds, OverlayVotes(calls[c].voteMap, rows))
    /\ UNCHANGED <<pg, conn, timers, idUsed, resetClean, lastCast, catalog, listed, deletion>>
    /\ Expose

\* castVote, resetVotes and getRoomState, interleaved at their awaits
NextVoteCache ==
    \/ \E n \in RoomNames, vs \in VotingSystems, a \in Hosts :
          CreateRoomHttp(n, vs, a, FALSE, FALSE, FALSE)
    \/ \E c \in FailSockets : JoinRoomQuiet(c)
    \/ \E c \in FailSockets, v \in Values \cup {EmptyValue} : CastGetRoom(c, v)
    \/ \E c \in FailSockets : CastRedis(c)
    \/ \E c \in FailSockets : CastPrisma(c)
    \/ \E c \in FailSockets : ResetExists(c)
    \/ \E c \in FailSockets : ResetExec(c)
    \/ \E c \in FailSockets : ResetUpdate(c)
    \/ \E c \in FailSockets : ResetDeleteMany(c)
    \/ \E c \in FailSockets : StateGetRoom(c)
    \/ \E c \in FailSockets : StateSmembers(c)
    \/ \E c \in FailSockets : StateHgetall(c)
    \/ \E c \in FailSockets : StateFindMany(c)
    \/ \E c \in FailSockets : StateExec(c)

SpecVoteCache == Init /\ [][NextVoteCache]_vars

\* castVote, revealVotes, resetVotes and getRoomState, interleaved at their awaits
NextSnapshot ==
    \/ \E n \in RoomNames, vs \in VotingSystems, a \in Hosts :
          CreateRoomHttp(n, vs, a, FALSE, FALSE, FALSE)
    \/ \E c \in FailSockets : JoinRoomQuiet(c)
    \/ \E c \in FailSockets, v \in Values : CastGetRoom(c, v)
    \/ \E c \in FailSockets : CastRedis(c)
    \/ \E c \in FailSockets : CastPrisma(c)
    \/ \E c \in FailSockets : RevealExists(c)
    \/ \E c \in FailSockets : RevealHset(c)
    \/ \E c \in FailSockets : RevealUpdate(c)
    \/ \E c \in FailSockets : ResetExists(c)
    \/ \E c \in FailSockets : ResetExec(c)
    \/ \E c \in FailSockets : ResetUpdate(c)
    \/ \E c \in FailSockets : ResetDeleteMany(c)
    \/ \E c \in FailSockets : StateGetRoom(c)
    \/ \E c \in FailSockets : StateSmembers(c)
    \/ \E c \in FailSockets : StateHgetall(c)
    \/ \E c \in FailSockets : StateFindMany(c)
    \/ \E c \in FailSockets : StateExec(c)

SpecSnapshot == Init /\ [][NextSnapshot]_vars

\* castVote and revealVotes, interleaved at their awaits; resetVotes is not called
NextCastReveal ==
    \/ \E n \in RoomNames, vs \in VotingSystems, a \in Hosts :
          CreateRoomHttp(n, vs, a, FALSE, FALSE, FALSE)
    \/ \E c \in FailSockets : JoinRoomQuiet(c)
    \/ \E c \in FailSockets, v \in Values \cup {EmptyValue} : CastGetRoom(c, v)
    \/ \E c \in FailSockets : CastRedis(c)
    \/ \E c \in FailSockets : CastPrisma(c)
    \/ \E c \in FailSockets : RevealExists(c)
    \/ \E c \in FailSockets : RevealHset(c)
    \/ \E c \in FailSockets : RevealUpdate(c)

SpecCastReveal == Init /\ [][NextCastReveal]_vars

\* ------------------------------------------- DELETE /rooms/:id, await by await
\* The awaits of the route and of roomStore.deleteRoom are steps of their own;
\* deletion holds the position of the request. The requester is the host.
DeleteAt(pc) == deletion.pc = pc

\* the route up to the call of deleteRoom: getRoom, 404 when there is no room,
\* ROOM_CLOSED and disconnectSockets(true)
DeleteBegin ==
    /\ idUsed /\ DeleteAt("idle")
    /\ LET g == getRoom(redis, pg, FALSE)
       IN  /\ redis' = g.redis
           /\ IF ~g.ret.present
              THEN /\ lastOp' = Op("getRoom", "undefined")
                   /\ UNCHANGED <<conn, deletion>>
              ELSE /\ conn' = [c \in Sockets |->
                                  IF conn[c] = "joined" THEN "closing" ELSE conn[c]]
                   /\ deletion' = [pc |-> "delete.smembers", userIds |-> {}]
                   /\ lastOp' = Op("getRoom", "room")
    /\ UNCHANGED <<pg, timers, idUsed, resetClean, lastCast, calls, catalog, listed, exposed>>

\* deleteRoom: userIds = await redis.smembers(users)
DeleteSmembers ==
    /\ DeleteAt("delete.smembers")
    /\ deletion' = [pc |-> "delete.del", userIds |-> redis.users]
    /\ lastOp' = Op("smembers", "done")
    /\ UNCHANGED <<redis, pg, conn, timers, idUsed, resetClean, lastCast, calls, catalog,
                   listed, exposed>>

\* deleteRoom: await redis.del(meta, users, user_data, votes, sockets of userIds)
DeleteDel ==
    /\ DeleteAt("delete.del")
    /\ redis' = [redis EXCEPT !.meta = AbsentMeta, !.users = {}, !.user_data = {},
                              !.votes = NoCast,
                              !.sockets = [u \in Users |->
                                              IF u \in deletion.userIds THEN {} ELSE @[u]]]
    /\ deletion' = [deletion EXCEPT !.pc = "delete.participants"]
    /\ lastOp' = Op("del", "done")
    /\ UNCHANGED <<pg, conn, timers, idUsed, resetClean, lastCast, calls, catalog,
                   listed, exposed>>

\* deleteRoom: await prisma.participant.deleteMany({ where: { roomId } })
DeleteParticipants ==
    /\ DeleteAt("delete.participants")
    /\ pg' = [pg EXCEPT !.participants = EmptyBag]
    /\ deletion' = [deletion EXCEPT !.pc = "delete.votes"]
    /\ lastOp' = Op("participant.deleteMany", "done")
    /\ UNCHANGED <<redis, conn, timers, idUsed, resetClean, lastCast, calls, catalog,
                   listed, exposed>>

\* deleteRoom: await prisma.vote.deleteMany({ where: { roomId } })
DeleteVotes ==
    /\ DeleteAt("delete.votes")
    /\ pg' = [pg EXCEPT !.votes = {}]
    /\ deletion' = [deletion EXCEPT !.pc = "delete.room"]
    /\ lastOp' = Op("vote.deleteMany", "done")
    /\ UNCHANGED <<redis, conn, timers, idUsed, resetClean, lastCast, calls, catalog,
                   listed, exposed>>

\* deleteRoom: await prisma.room.delete({ where: { id } }) and return true; the
\* delete of a row that is not there throws and deleteRoom returns false
DeleteRoomRow ==
    /\ DeleteAt("delete.room")
    /\ IF pg.room.present
       THEN /\ pg' = [pg EXCEPT !.room = AbsentRow]
            /\ lastOp' = Op("deleteRoom", "true")
       ELSE /\ lastOp' = Op("deleteRoom", "false")
            /\ UNCHANGED pg
    /\ deletion' = NoDeletion
    /\ UNCHANGED <<redis, conn, timers, idUsed, resetClean, lastCast, calls, catalog,
                   listed, exposed>>

\* a call of getRoomState(roomId, viewer) made while the request is in flight
GetRoomStateCall(viewer) ==
    /\ idUsed
    /\ LET st == getRoomState(redis, pg, viewer, FALSE)
       IN  /\ redis' = st.redis
           /\ lastOp' = Op("getRoomStateCall", IF st.ret.present THEN "state" ELSE "undefined")
    /\ UNCHANGED <<pg, conn, timers, idUsed, resetClean, lastCast, calls, catalog,
                   listed, exposed, deletion>>

\* JOIN_ROOM and CAST_VOTE while no DELETE request is in flight
JoinRoomNoDelete(c) == DeleteAt("idle") /\ JoinRoom(c, AuthUser(c), FALSE, FALSE)

CastVoteNoDelete(c, value) == DeleteAt("idle") /\ CastVote(c, value, FALSE, FALSE)

NextDelete ==
    \/ \E n \in RoomNames, vs \in VotingSystems, a \in Hosts :
          CreateRoomHttp(n, vs, a, FALSE, FALSE, FALSE)
    \/ \E c \in Sockets : JoinRoomNoDelete(c)
    \/ \E c \in Sockets, v \in Values : CastVoteNoDelete(c, v)
    \/ DeleteBegin
    \/ DeleteSmembers
    \/ DeleteDel
    \/ DeleteParticipants
    \/ DeleteVotes
    \/ DeleteRoomRow
    \/ GetRoomHttp(FALSE)
    \/ \E viewer \in Users : GetRoomStateCall(viewer)
    \/ \E c \in Sockets : Disconnect(c, FALSE)

SpecDelete == Init /\ [][NextDelete]_vars

\* ------------------------------------------ a host registered by POST /rooms
\* POST /rooms with or without adminName, then joins and leaves of the connections
NextHost ==
    \/ \E n \in RoomNames, vs \in VotingSystems, a \in Hosts, adminName \in BOOLEAN :
          CreateRoomHttp(n, vs, a, adminName, FALSE, FALSE)
    \/ \E c \in Sockets : JoinRoom(c, AuthUser(c), FALSE, FALSE)
    \/ \E c \in Sockets, v \in Values : CastVote(c, v, FALSE, FALSE)
    \/ \E c \in Sockets : LeaveRoom(c, FALSE)
    \/ \E c \in Sockets : Disconnect(c, FALSE)

SpecHost == Init /\ [][NextHost]_vars

\* ------------------------------------- JOIN_ROOM with the userId of its payload
\* The userId of a JOIN_ROOM payload is whatever the client sends: any user id, the
\* one of the handshake or another.
NextAttribution ==
    \/ \E n \in RoomNames, vs \in VotingSystems, a \in Hosts :
          CreateRoomHttp(n, vs, a, FALSE, FALSE, FALSE)
    \/ \E c \in Sockets, u \in Users : JoinRoom(c, u, FALSE, FALSE)
    \/ \E c \in Sockets, v \in Values \cup {EmptyValue} : CastVote(c, v, FALSE, FALSE)
    \/ \E c \in Sockets : Reset(c, FALSE, FALSE)
    \/ \E c \in Sockets : LeaveRoom(c, FALSE)

SpecAttribution == Init /\ [][NextAttribution]_vars

\* ------------------------------------------------------------------ claims
\* what getRoomState returns to a viewer in the current state
StateFor(viewer) == getRoomState(redis, pg, viewer, FALSE).ret
Reported == getRoom(redis, pg, FALSE).ret

\* C1: vote privacy. While the room is not revealed, the votes record getRoomState
\* returns to a viewer U (a user, or no viewer id) has no key other than U; the other
\* members appear only as the boolean hasVoted.
C1_VotePrivacy ==
    \A U \in Viewers :
        LET st == StateFor(U)
        IN  (st.present /\ ~st.revealed) =>
                /\ DOMAIN st.votes \subseteq {U}
                /\ \A V \in DOMAIN st.users : st.users[V] \in BOOLEAN

\* a vote was just cast and broadcast; u2 has voted, u1 has not, both are listed,
\* and u1's snapshot shows hasVoted of u2 and an empty votes record
C1_Witness ==
    /\ lastOp = Op("castVote", "true")
    /\ LET st == StateFor("u1")
       IN  /\ st.present /\ ~st.revealed
           /\ DOMAIN st.users = Users
           /\ st.users["u2"] /\ ~st.users["u1"]
           /\ st.votes = <<>>

\* C3: after resetVotes returned true and until the next castVote or revealVotes,
\* every getRoomState shows revealed = false, hasVoted = false for every member and
\* an empty votes record.
C3_ResetClears ==
    resetClean =>
        \A U \in Viewers :
            LET st == StateFor(U)
            IN  st.present =>
                    /\ ~st.revealed
                    /\ \A m \in DOMAIN st.users : ~st.users[m]
                    /\ st.votes = <<>>

\* resetVotes has just returned true in a room with both users listed
C3_Witness ==
    /\ resetClean
    /\ lastOp = Op("resetVotes", "true")
    /\ DOMAIN StateFor("u1").users = Users

\* C4: with U's presence set exactly {c1, c2} in an existing room,
\* removeSocketFromUser(c1) returns false and leaves U's membership as it is, and the
\* removeSocketFromUser(c2) that follows returns true and removes U from the member set.
C4_TwoConnections ==
    \A U \in Users : \A c1, c2 \in Sockets :
        (c1 # c2 /\ redis.sockets[U] = {c1, c2} /\ Reported.present /\ U \in redis.users) =>
            LET first == removeSocketFromUser(redis, pg, U, c1, FALSE)
                second == removeSocketFromUser(first.redis, pg, U, c2, FALSE)
            IN  /\ first.ret = "false"
                /\ U \in first.redis.users
                /\ second.ret = "true"
                /\ U \notin second.redis.users

\* one of two connections of u1 has just left: "not fully left", u1 still a member
C4_Witness ==
    /\ lastOp = Op("removeSocketFromUser", "false")
    /\ Cardinality(redis.sockets["u1"]) = 1
    /\ "u1" \in redis.users

\* C6: rehydration. With no member and no vote record of the room in the Fast Store,
\* getRoomState lists exactly the durable participants, hasVoted exactly for those with
\* a row in the votes table, and the votes record follows the visibility rule over
\* those rows.
ColdCache == redis.users = {} /\ redis.user_data = {} /\ redis.votes = NoCast
C6_Rehydration ==
    (pg.room.present /\ ColdCache) =>
        \A U \in Viewers :
            LET st == StateFor(U)
            IN  /\ st.present
                /\ DOMAIN st.users = BagToSet(pg.participants)
                /\ \A m \in BagToSet(pg.participants) : st.users[m] = (VoteRows(pg, m) # {})
                /\ st.votes =
                     IF st.revealed THEN [m \in BagToSet(pg.participants) |-> PgVoteOf(pg, m)]
                     ELSE IF U # NoUser /\ VoteRows(pg, U) # {}
                          THEN [m \in {U} |-> PgVoteOf(pg, U)]
                          ELSE <<>>

\* cold Fast Store, participants {u1, u2}, one vote row, of u1
C6_Witness ==
    /\ pg.room.present /\ ColdCache
    /\ BagToSet(pg.participants) = Users
    /\ VoteRows(pg, "u1") # {} /\ VoteRows(pg, "u2") = {}
    /\ StateFor("u1").votes = [m \in {"u1"} |-> PgVoteOf(pg, "u1")]

\* C7: once revealed, getRoomState does not depend on the viewer: any two viewers get
\* the same votes record, and it holds the recorded value of every listed member who
\* has voted.
C7_RevealedSameForAll ==
    \A U \in Viewers :
        LET st == StateFor(U)
        IN  (st.present /\ st.revealed) =>
                /\ \A V \in Viewers : StateFor(V).votes = st.votes
                /\ \A m \in DOMAIN st.users :
                       /\ st.users[m] = (VoteRows(pg, m) # {})
                       /\ st.users[m] => st.votes[m] = PgVoteOf(pg, m)

\* revealed; u1 voted "3"; u2, who did not vote, sees votes with u1's "3"
C7_Witness ==
    LET st == StateFor("u2")
    IN  /\ st.present /\ st.revealed
        /\ DOMAIN st.users = Users
        /\ ~st.users["u2"]
        /\ st.votes["u1"] = "3"

\* C8: castVote on a revealed room, or on a room unknown to both stores, returns
\* false and leaves the vote records of both stores as they are.
C8_CastVoteRejected ==
    (~Reported.present \/ Reported.revealed) =>
        \A u \in Users : \A v \in Values \cup {EmptyValue} :
            LET cv == castVote(redis, pg, u, v, FALSE, FALSE)
            IN  /\ cv.ret = "false"
                /\ cv.redis.votes = redis.votes
                /\ cv.pg.votes = pg.votes

\* CAST_VOTE has just been refused on a revealed room that holds a vote
C8_Witness ==
    /\ lastOp = Op("castVote", "false")
    /\ Reported.present /\ Reported.revealed
    /\ pg.votes # {}

\* C10: each store holds at most one vote record per user; a record is the value of
\* the user's last successful castVote of the round, the Durable Store always has it,
\* and after a successful castVote of the empty value neither store has a record and
\* hasVoted is false.
C10_OneVotePerUser ==
    \A u \in Users :
        /\ Cardinality(VoteRows(pg, u)) <= 1
        /\ \A row \in VoteRows(pg, u) : row.value = lastCast[u]
        /\ redis.votes[u] # Undefined => redis.votes[u] = lastCast[u]
        /\ lastCast[u] \in Values => PgVoteOf(pg, u) = lastCast[u]
        /\ lastCast[u] = EmptyValue =>
               /\ VoteRows(pg, u) = {} /\ redis.votes[u] = Undefined
               /\ \A U \in Viewers :
                      LET st == StateFor(U)
                      IN  (st.present /\ u \in DOMAIN st.users) => ~st.users[u]

\* u1 has just cleared a vote while u2's "5" stands
C10_Witness ==
    /\ lastOp = Op("castVote", "true")
    /\ lastCast["u1"] = EmptyValue
    /\ lastCast["u2"] = "5"
    /\ "u1" \in redis.users
\* C9: the revealed flag getRoom reports changes from false to true only by a
\* revealVotes call and from true to false only by a resetVotes call, whatever
\* evictions, repopulations and store write failures happen.
ReportedAfter == getRoom(redis', pg', FALSE).ret
C9_RevealedOnlyByRevealReset ==
    [][(Reported.present /\ ReportedAfter.present /\ Reported.revealed # ReportedAfter.revealed) =>
          IF ReportedAfter.revealed THEN lastOp'.op = "revealVotes"
          ELSE lastOp'.op = "resetVotes"]_vars
\* C2: countdown race. When resetVotes completed after REVEAL armed the timer, the
\* callback is a no-op when it fires: it reveals nothing, and the revealed flag of
\* neither store changes.
FiredAfterReset ==
    \E i \in 1..Len(timers) :
        /\ timers[i]
        /\ timers' = [j \in 1..(Len(timers) - 1) |-> IF j < i THEN timers[j] ELSE timers[j + 1]]
C5_RemovedOnlyWhenNoConnection ==
    [][\A U \in Users :
          (U \in redis.users /\ U \notin redis'.users) => redis.sockets[U] = {}]_vars
\* C11: getRoom returns the Fast Store metadata when it is there; on a miss or a
\* Fast Store failure it returns the Durable Store room and repopulates the Fast Store
\* when it can, a failed repopulation not failing the call; it returns not-found only
\* when the room is in neither store.
C11_GetRoomFallback ==
    \A rf \in BOOLEAN :
        LET g == getRoom(redis, pg, rf)
            hit == ~rf /\ redis.meta.present
        IN  /\ hit => /\ g.redis = redis
                      /\ g.ret.present
                      /\ g.ret.name = redis.meta.name
                      /\ g.ret.adminId = redis.meta.adminId
                      /\ g.ret.votingSystem = redis.meta.votingSystem
                      /\ g.ret.revealPolicy = redis.meta.revealPolicy
                      /\ g.ret.revealed = (redis.meta.revealed = "true")
            /\ (~hit /\ pg.room.present) =>
                      /\ g.ret.present
                      /\ g.ret.name = pg.room.name
                      /\ g.ret.adminId = pg.room.adminId
                      /\ g.ret.votingSystem = pg.room.votingSystem
                      /\ g.ret.revealed = pg.room.revealed
                      /\ IF rf THEN g.redis = redis
                         ELSE /\ g.redis.meta.present
                              /\ g.redis.meta.name = pg.room.name
                              /\ g.redis.meta.revealed = BoolToString(pg.room.revealed)
            /\ ~g.ret.present => (~redis.meta.present /\ ~pg.room.present)

\* GET /rooms/:id has just answered with the room while the Fast Store rejected every
\* command: the metadata is still missing there, the room came from the Durable Store
C11_Witness ==
    /\ lastOp = Op("getRoom", "room")
    /\ ~redis.meta.present
    /\ pg.room.present
    /\ redis.users # {}

\* C12: for a room of the Durable Store, getRoomState returns a RoomState, never an
\* error, whether the Fast Store answers or rejects the reads of the call.
C12_GetRoomStateNeverFails ==
    \A viewer \in Viewers, rf \in BOOLEAN :
        pg.room.present =>
            LET s == getRoomState(redis, pg, viewer, rf)
            IN  ~s.threw /\ s.ret.present

\* C13: when the Fast Store rejects the writes and the Durable Store accepts them,
\* castVote, revealVotes, resetVotes, updateSettings and addUser report success and the
\* Durable Store holds the mutation.
C13_FastWriteFailureNotPropagated ==
    (pg.room.present /\ ~pg.room.revealed) =>
        /\ \A u \in Users, v \in Values :
              LET cv == castVote(redis, pg, u, v, TRUE, FALSE)
              IN  cv.ret = "true" /\ PgVoteOf(cv.pg, u) = v
        /\ LET rv == revealVotes(redis, pg, TRUE, FALSE)
           IN  rv.ret = "true" /\ rv.pg.room.revealed
        /\ LET rs == resetVotes(redis, pg, TRUE, FALSE)
           IN  rs.ret = "true" /\ rs.pg.votes = {}
        /\ LET us == updateSettings(redis, pg, [name |-> "Sprint 2", votingSystem |-> Undefined,
                                                revealPolicy |-> Undefined,
                                                enableCountdown |-> Undefined], TRUE, FALSE)
           IN  us.ret = "true" /\ us.pg.room.name = "Sprint 2"
        /\ \A u \in Users :
              LET au == addUser(redis, pg, u, 1, TRUE, FALSE)
              IN  au.ret = "true" /\ BagIn(u, au.pg.participants)
\* C14: when the Durable Store rejects the write of createRoom, castVote, revealVotes,
\* resetVotes or deleteRoom, the caller gets a rejected promise or false, never success.
C14_DurableFailureReported ==
    \A rf \in BOOLEAN :
        /\ \A n \in RoomNames, vs \in VotingSystems, a \in Users :
              createRoom(redis, pg, n, vs, a, rf, TRUE).ret = "throw"
        /\ \A u \in Users, v \in Values \cup {EmptyValue} :
              castVote(redis, pg, u, v, rf, TRUE).ret \in {"false", "throw"}
        /\ revealVotes(redis, pg, rf, TRUE).ret \in {"false", "throw"}
        /\ resetVotes(redis, pg, rf, TRUE).ret \in {"false", "throw"}
        /\ deleteRoom(redis, pg, rf, TRUE).ret \in {"false", "throw"}

\* DELETE /rooms/:id has just answered false: the Fast Store keys are gone, the rows
\* of the Durable Store, with a member and a vote, are still there
C14_Witness ==
    /\ lastOp = Op("deleteRoom", "false")
    /\ ~redis.meta.present
    /\ pg.room.present
    /\ pg.participants # EmptyBag
    /\ pg.votes # {}

\* C15: createRoom succeeds exactly when the insert succeeds. A failed Fast Store seed
\* does not fail it, and getRoom then returns the room (given name, voting system and
\* host, revealed = false); a failed insert fails the call and writes nothing to the
\* Fast Store.
C15_CreateRoomAuthoritativeInsert ==
    (~pg.room.present /\ ~redis.meta.present) =>
        \A n \in RoomNames, vs \in VotingSystems, a \in Users, rf \in BOOLEAN, pf \in BOOLEAN :
            LET c == createRoom(redis, pg, n, vs, a, rf, pf)
            IN  IF pf
                THEN c.ret = "throw" /\ c.redis = redis /\ c.pg = pg
                ELSE /\ c.ret = "room"
                     /\ \A rf2 \in BOOLEAN :
                           LET g == getRoom(c.redis, c.pg, rf2).ret
                           IN  /\ g.present /\ ~g.revealed
                               /\ g.name = n /\ g.votingSystem = vs /\ g.adminId = a

\* POST /rooms has just succeeded although the seed of the Fast Store failed: the
\* room is in the Durable Store only, and getRoom finds it
C15_Witness ==
    /\ lastOp = Op("createRoom", "room")
    /\ ~redis.meta.present
    /\ pg.room.present /\ ~pg.room.revealed
    /\ getRoom(redis, pg, FALSE).ret.present
\* C16: right after deleteRoom returned true the room is in neither store: no
\* metadata, member set, member data, vote record or connection set of a member in the
\* Fast Store, no room, participant or vote row in the Durable Store, and getRoom
\* answers not-found.
C16_DeleteRemovesEverything ==
    lastOp = Op("deleteRoom", "true") =>
        /\ ~redis.meta.present
        /\ redis.users = {} /\ redis.user_data = {}
        /\ redis.votes = NoCast
        /\ \A u \in Users : redis.sockets[u] = {}
        /\ ~pg.room.present /\ pg.participants = EmptyBag /\ pg.votes = {}
        /\ ~getRoom(redis, pg, FALSE).ret.present
\* C17: deleteRoom tolerates a Fast Store that rejects its cleanup commands: the
\* participant, vote and room rows are deleted all the same and the call returns true.
C17_DeleteToleratesFastStoreFailure ==
    pg.room.present =>
        LET d == deleteRoom(redis, pg, TRUE, FALSE)
        IN  /\ d.ret = "true"
            /\ ~d.pg.room.present /\ d.pg.participants = EmptyBag /\ d.pg.votes = {}

\* C18: for a room of the Durable Store revealVotes returns true and leaves
\* revealed = true in the metadata of the Fast Store and in the rooms row, whether the
\* metadata was in the Fast Store or not; for a room in neither store it returns false
\* and changes nothing.
C18_RevealRejectedOnlyWhenUnknown ==
    LET rv == revealVotes(redis, pg, FALSE, FALSE)
    IN  /\ pg.room.present =>
              /\ rv.ret = "true"
              /\ rv.redis.meta.present /\ rv.redis.meta.revealed = "true"
              /\ rv.pg.room.revealed
        /\ (~pg.room.present /\ ~redis.meta.present) =>
              rv.ret = "false" /\ rv.redis = redis /\ rv.pg = pg

\* C19: for a room of the Durable Store resetVotes leaves revealed = false and no vote
\* of the room in the Fast Store and in the Durable Store, whether the metadata was in
\* the Fast Store or not.
C19_ResetInEveryFastStoreState ==
    pg.room.present =>
        LET rs == resetVotes(redis, pg, FALSE, FALSE)
        IN  /\ rs.redis.meta.revealed # "true"
            /\ rs.redis.votes = NoCast
            /\ ~rs.pg.room.revealed
            /\ rs.pg.votes = {}

\* C20: updateSettings changes only the fields of the payload: a setting the payload
\* does not carry, the revealed flag, the members and the votes are the same before
\* and after in both stores; a name or votingSystem of the payload is, after the call,
\* the value of the Fast Store metadata and of the rooms row.
C20_UpdateSettingsFrame ==
    \A updates \in SettingsPayloads :
        LET us == updateSettings(redis, pg, updates, FALSE, FALSE)
            m == us.redis.meta
        IN  /\ updates.name = Undefined =>
                  m.name = redis.meta.name /\ us.pg.room.name = pg.room.name
            /\ updates.votingSystem = Undefined =>
                  /\ m.votingSystem = redis.meta.votingSystem
                  /\ us.pg.room.votingSystem = pg.room.votingSystem
            /\ updates.revealPolicy = Undefined => m.revealPolicy = redis.meta.revealPolicy
            /\ updates.enableCountdown = Undefined =>
                  m.enableCountdown = redis.meta.enableCountdown
            /\ m.revealed = redis.meta.revealed /\ us.pg.room.revealed = pg.room.revealed
            /\ m.present = redis.meta.present /\ us.pg.room.present = pg.room.present
            /\ m.adminId = redis.meta.adminId /\ us.pg.room.adminId = pg.room.adminId
            /\ us.redis.users = redis.users /\ us.redis.user_data = redis.user_data
            /\ us.redis.sockets = redis.sockets /\ us.redis.socketMap = redis.socketMap
            /\ us.redis.votes = redis.votes
            /\ us.pg.votes = pg.votes /\ us.pg.participants = pg.participants
            /\ us.pg.users = pg.users
            /\ (m.present /\ updates.name # Undefined) =>
                  m.name = updates.name /\ us.pg.room.name = updates.name
            /\ (m.present /\ updates.votingSystem # Undefined) =>
                  /\ m.votingSystem = updates.votingSystem
                  /\ us.pg.room.votingSystem = updates.votingSystem

\* UPDATE_SETTINGS has just renamed a room in which a vote is cast: the new name is in
\* both stores, the voting system, the policy, the member and the vote are as before
C20_Witness ==
    /\ lastOp = Op("updateSettings", "true")
    /\ redis.meta.name = "Sprint 2" /\ pg.room.name = "Sprint 2"
    /\ redis.meta.votingSystem = "fibonacci" /\ pg.room.votingSystem = "fibonacci"
    /\ redis.meta.revealPolicy = "everyone"
    /\ "u1" \in redis.users
    /\ redis.votes["u1"] = "3" /\ PgVoteOf(pg, "u1") = "3"
\* C21: after updateSettings with a countdown flag c succeeded on a room whose metadata
\* is in the Fast Store, getRoom reports the countdown flag as c.
C21_CountdownFlagStored ==
    \A updates \in SettingsPayloads :
        (redis.meta.present /\ updates.enableCountdown # Undefined) =>
            LET us == updateSettings(redis, pg, updates, FALSE, FALSE)
            IN  /\ us.ret = "true"
                /\ getRoom(us.redis, us.pg, FALSE).ret.enableCountdown
                       = (updates.enableCountdown = "true")
\* C22: getUserRooms returns the slice [offset, offset + limit) of the list of every
\* room the user hosts plus every room the user joined without hosting it, each room
\* once, newest first; total is the length of that whole list.
ListedRooms(userId) ==
    {id \in RoomIds : /\ catalog.rooms[id].present
                      /\ \/ catalog.rooms[id].adminId = userId
                         \/ <<id, userId>> \in catalog.participants}
PageOf(all, userId, limit, offset) ==
    LET page == getUserRooms(catalog, userId, limit, offset)
    IN  /\ page.total = Len(all)
        /\ Len(page.rooms) <= limit
        /\ \A k \in 1..Len(page.rooms) : page.rooms[k] = all[offset + k]
        /\ Len(page.rooms) < limit => offset + Len(page.rooms) >= Len(all)
WholeList(all, userId) ==
    /\ {all[k] : k \in 1..Len(all)} = ListedRooms(userId)
    /\ Len(all) = Cardinality(ListedRooms(userId))
    /\ \A k \in 1..(Len(all) - 1) :
          catalog.rooms[all[k]].createdAt >= catalog.rooms[all[k + 1]].createdAt
    /\ \A limit \in 0..(NumRooms + 1), offset \in 0..(NumRooms + 1) :
          PageOf(all, userId, limit, offset)
C22_ListRoomsForUser ==
    \A userId \in Users : WholeList(getUserRooms(catalog, userId, NumRooms, 0).rooms, userId)

\* GET /rooms/my has just listed, from offset 1, the rooms of a user who hosts two
\* rooms, joined one of them as well, and joined a room of another host
C22_Witness ==
    /\ listed.userId = "u1" /\ listed.offset = 1
    /\ listed.total = 3 /\ Len(listed.rooms) = 2
    /\ \E h \in RoomIds : catalog.rooms[h].adminId = "u1" /\ <<h, "u1">> \in catalog.participants
    /\ \E j \in RoomIds : catalog.rooms[j].adminId = "u2" /\ <<j, "u1">> \in catalog.participants
    /\ listed.rooms = getUserRooms(catalog, "u1", 2, 1).rooms
\* C23: getUserBySocketId(c) returns the user of the binding of c exactly when a
\* binding made by mapSocket is there (not removed by unmapSocket, not expired);
\* mapSocket again leaves that one binding, and after unmapSocket the lookup returns
\* not-found.
C23_LookupIffBinding ==
    \A c \in Sockets :
        /\ getUserBySocketId(redis, c) = redis.socketMap[c]
        /\ \A u \in Users :
              LET once == mapSocket(redis, c, u, FALSE)
              IN  /\ mapSocket(once, c, u, FALSE) = once
                  /\ getUserBySocketId(unmapSocket(once, c), c) = NoUser

\* C24: addUser is idempotent per connection: called twice with the same user and the
\* same connection id it leaves exactly one participants row, one member-set entry
\* and one connection-set entry for them, and the member count is what it was after
\* the first call.
C24_AddUserIdempotent ==
    \A u \in Users, c \in Sockets :
        LET a1 == addUser(redis, pg, u, c, FALSE, FALSE)
            a2 == addUser(a1.redis, a1.pg, u, c, FALSE, FALSE)
        IN  a1.ret = "true" =>
              /\ a2.ret = "true"
              /\ CopiesIn(u, a2.pg.participants) = 1
              /\ u \in a2.redis.users /\ u \in a2.redis.user_data
              /\ c \in a2.redis.sockets[u]
              /\ Cardinality(a2.redis.users) = Cardinality(a1.redis.users)
              /\ Cardinality(a2.redis.sockets[u]) = Cardinality(a1.redis.sockets[u])
              /\ BagCardinality(a2.pg.participants) = BagCardinality(a1.pg.participants)
              /\ a2.pg.users = a1.pg.users

\* JOIN_ROOM has added u1 on connection 1 while u1 was a member on connection 3 and u2
\* a member as well: a further addUser of u1 on connection 1 is the repeated call
C24_Witness ==
    /\ lastOp = Op("addUser", "true")
    /\ redis.meta.present
    /\ redis.sockets["u1"] = {1, 3}
    /\ redis.users = {"u1", "u2"}
    /\ CopiesIn("u1", pg.participants) = 1 /\ CopiesIn("u2", pg.participants) = 1

\* what the two stores hold of the membership of u
MembershipOf(r, p, u) ==
    [userRow |-> u \in p.users, participantRows |-> CopiesIn(u, p.participants),
     member |-> u \in r.users, memberData |-> u \in r.user_data, connections |-> r.sockets[u]]
ReflectsJoin(m) ==
    /\ m.userRow /\ m.participantRows = 1
    /\ m.member /\ m.memberData /\ m.connections # {}

\* C25: addUser is one logical unit: when a step of it fails (the user upsert, the
\* participant upsert or the Fast Store writes), afterwards the user row, the
\* participants row, the member-set entry, the member-data entry and the
\* connection-set entry either all reflect the join or are all as before the call.
C25_AddUserOneUnit ==
    [][lastOp' = Op("addUser", "throw") =>
          \A u \in Users :
             \/ MembershipOf(redis', pg', u) = MembershipOf(redis, pg, u)
             \/ ReflectsJoin(MembershipOf(redis', pg', u))]_vars

\* the step is the firing of a setTimeout callback
CallbackFired == Len(timers') = Len(timers) - 1
\* the step is the firing of a callback armed after the last reset
FiredUnreset ==
    \E i \in 1..Len(timers) :
        /\ ~timers[i]
        /\ timers' = [j \in 1..(Len(timers) - 1) |-> IF j < i THEN timers[j] ELSE timers[j + 1]]
\* revealed, as getRoom reports it from the two stores
RoomRevealed(r, p) == getRoom(r, p, FALSE).ret.revealed
RoomKnown(r, p) == getRoom(r, p, FALSE).ret.present

StoredValue(value) == IF value = EmptyValue THEN Undefined ELSE value

\* C27: castVote calls of different users on one unrevealed room do not disturb each
\* other, however their store steps interleave: each user has at most one votes row;
\* between the two writes of a call the Fast Store holds the value of the call and
\* the Durable Store the user's value of before; otherwise both stores hold the value
\* of the user's last completed call, as when the calls run one after the other.
C27_ConcurrentCastsIndependent ==
    \A u \in Users :
        /\ Cardinality(VoteRows(pg, u)) <= 1
        /\ PgVoteOf(pg, u) = StoredValue(lastCast[u])
        /\ IF \E c \in Sockets : At(c, "cast.prisma") /\ calls[c].user = u
           THEN \A c \in Sockets :
                   (At(c, "cast.prisma") /\ calls[c].user = u) =>
                       redis.votes[u] = StoredValue(calls[c].value)
           ELSE redis.votes[u] = StoredValue(lastCast[u])

\* the calls of u1 (casting 3) and u2 (casting 5) are in flight together: both have
\* written the Fast Store and neither the Durable Store
C27_Witness ==
    /\ At(1, "cast.prisma") /\ calls[1].value = "3"
    /\ At(2, "cast.prisma") /\ calls[2].value = "5"
    /\ redis.votes = [u \in Users |-> IF u = "u1" THEN "3" ELSE "5"]
    /\ pg.votes = {}

\* getRoom on the stores r, p after the metadata key of the room has gone from r
RestoredRoom(r, p) == getRoom([r EXCEPT !.meta = AbsentMeta], p, FALSE)
RestoredFromRow(g, row) ==
    /\ g.ret.present /\ g.redis.meta.present
    /\ g.ret.revealPolicy = "everyone" /\ g.redis.meta.revealPolicy = "everyone"
    /\ ~g.ret.enableCountdown /\ ~g.redis.meta.enableCountdown
    /\ g.ret.name = row.name /\ g.redis.meta.name = row.name
    /\ g.ret.adminId = row.adminId /\ g.redis.meta.adminId = row.adminId
    /\ g.ret.votingSystem = row.votingSystem /\ g.redis.meta.votingSystem = row.votingSystem
    /\ g.ret.revealed = row.revealed /\ StringIsTrue(g.redis.meta.revealed) = row.revealed

\* C28: when the Fast Store metadata of a room is lost and getRoom restores it from the
\* rooms row, the room has revealPolicy 'everyone' and no enabled countdown, whatever
\* updateSettings stored before the loss, and its name, host id, voting system and
\* revealed flag are those of the rooms row.
C28_RestoredSettingsDefault ==
    /\ pg.room.present => RestoredFromRow(RestoredRoom(redis, pg), pg.room)
    /\ \A updates \in SettingsPayloads :
          LET us == updateSettings(redis, pg, updates, FALSE, FALSE)
          IN  (us.ret = "true" /\ us.pg.room.present) =>
                  RestoredFromRow(RestoredRoom(us.redis, us.pg), us.pg.room)

\* the metadata has just expired from the Fast Store of a room that UPDATE_SETTINGS
\* renamed and whose votes are revealed: the next getRoom restores it
C28_Witness ==
    /\ lastOp = Op("expire", "meta")
    /\ ~redis.meta.present
    /\ pg.room.present /\ pg.room.name = "Sprint 2" /\ pg.room.votingSystem = "tshirts"
    /\ pg.room.revealed

\* the connection c is bound to a member and its authenticated user is not the host
NonHost(c) ==
    /\ getUserBySocketId(redis, c) # NoUser
    /\ getRoom(redis, pg, FALSE).ret.present
    /\ getRoom(redis, pg, FALSE).ret.adminId # AuthUser(c)
HostOnlyPolicy == getRoom(redis, pg, FALSE).ret.revealPolicy # "everyone"

CountdownStarted ==
    /\ lastOp = Op("setTimeout", "COUNTDOWN_START")
    /\ pg.room.present /\ ~pg.room.revealed
\* doReveal has just stored revealed in both stores and broadcast ROOM_STATE
RevealedAndBroadcast ==
    /\ lastOp = Op("revealVotes", "true")
    /\ pg.room.revealed /\ StringIsTrue(redis.meta.revealed)
    /\ \A viewer \in Users : StateFor(viewer).revealed
RoomDeleted == idUsed /\ ~pg.room.present

FullyLeft(u) ==
    /\ lastOp' = Op("removeSocketFromUser", "true")
    /\ \E c \in Sockets : redis.socketMap[c] = u /\ redis'.socketMap[c] = NoUser

\* C31: a member who has fully left the room (removeSocketFromUser returned true for
\* their last connection) is in the users of no later getRoomState, for any viewer,
\* and is not counted by getActiveUserCount, also when they were the last to leave.
C31_LeftMemberNotListed ==
    [][\A u \in Users :
          FullyLeft(u) =>
             /\ \A viewer \in Users :
                   u \notin DOMAIN getRoomState(redis', pg', viewer, FALSE).ret.users
             /\ getActiveUserCount(redis', pg', FALSE).ret =
                   Cardinality(ActiveMembers(redis'.users \ {u}, pg'.room.adminId))]_vars

\* the users with a connection that joined the room and has neither left nor closed
LiveUsers == {u \in Users : \E c \in Sockets : conn[c] = "joined" /\ AuthUser(c) = u}

\* C32: when no join or leave is in flight, getActiveUserCount is the number of users
\* other than the host with at least one live connection bound to the room, and 0 for
\* an unknown room.
C32_ActiveCountIsLiveUsers ==
    LET room == getRoom(redis, pg, FALSE).ret
    IN  (\A c \in Sockets : At(c, "idle")) =>
            getActiveUserCount(redis, pg, FALSE).ret =
                IF room.present THEN Cardinality(ActiveMembers(LiveUsers, room.adminId))
                ELSE 0

\* C33: when the concurrent revealVotes and resetVotes calls on a room have completed,
\* with no store failure, the revealed flag of the Fast Store metadata equals the
\* revealed flag of the rooms row, however the calls interleaved.
C33_RevealedAgreesWhenQuiet ==
    (Quiet /\ redis.meta.present /\ pg.room.present) =>
        StringIsTrue(redis.meta.revealed) = pg.room.revealed

\* C34: whenever no operation is in flight, the Fast Store vote record holds no entry
\* that the Durable Store lacks or holds with a different value, for every interleaving
\* of castVote (clearing included), resetVotes and the vote rehydration of a
\* concurrent getRoomState.
C34_VoteCacheCoherent ==
    Quiet =>
        \A u \in Users :
            Truthy(redis.votes[u]) =>
                \E row \in pg.votes : row.userId = u /\ row.value = redis.votes[u]

\* the votes of users other than the viewer that a returned snapshot shows
ShownOfOthers(snapshot) ==
    {<<v, snapshot.votes[v]>> :
        v \in {w \in DOMAIN snapshot.votes : w # snapshot.viewer /\ Truthy(snapshot.votes[w])}}

\* C35: for every interleaving of getRoomState with castVote, revealVotes and resetVotes,
\* a snapshot returned to a viewer contains another user's vote value only if that value
\* was that user's recorded vote at some moment when the room was revealed; a vote cast
\* in a new round after a reset is not shown to another viewer before that round is
\* revealed.
C35_SnapshotShowsOnlyRevealedVotes ==
    lastOp.op = "getRoomState" => ShownOfOthers(lastOp.ret) \subseteq exposed

\* every vote on record while the room is revealed is in the history
ExposedIsHistory == RecordedWhileRevealed(redis, pg) \subseteq exposed

\* revealVotes has returned true: both of its writes are in place (resetVotes, the only
\* writer of revealed false, is not called)
RevealCompleted ==
    /\ redis.meta.present /\ StringIsTrue(redis.meta.revealed)
    /\ pg.room.present /\ pg.room.revealed

\* C36: for every interleaving of castVote with revealVotes, once revealVotes has
\* completed no step of castVote creates, changes or deletes a vote record in either
\* store, as long as resetVotes has not run.
C36_NoVoteWriteAfterReveal ==
    [][\A c \in Sockets :
          (RevealCompleted /\ (CastRedis(c) \/ CastPrisma(c))) =>
              (redis'.votes = redis.votes /\ pg'.votes = pg.votes)]_vars

\* nothing of the room is left in the Fast Store
FastStoreEmpty ==
    /\ ~redis.meta.present
    /\ redis.users = {}
    /\ \A u \in Users : redis.votes[u] = Undefined /\ redis.sockets[u] = {}

\* C37: for every interleaving of deleteRoom with concurrent getRoom / getRoomState
\* calls and with the disconnect handling of the forced disconnect, when deleteRoom has
\* returned success the Fast Store holds no metadata, member, vote or connection record
\* of the room and getRoom returns not-found.
C37_DeletedRoomLeavesNothing ==
    lastOp = Op("deleteRoom", "true") =>
        FastStoreEmpty /\ ~getRoom(redis, pg, FALSE).ret.present

\* a CAST_VOTE, REVEAL or RESET whose store function threw at its Durable Store write
DurableWriteFailed ==
    /\ \/ \E c \in FailSockets, v \in Values \cup {EmptyValue} : CastVote(c, v, FALSE, TRUE)
       \/ \E c \in FailSockets : Reveal(c, FALSE, TRUE)
       \/ \E c \in FailSockets : Reset(c, FALSE, TRUE)
    /\ lastOp' \in {Op("castVote", "throw"), Op("revealVotes", "throw"),
                    Op("resetVotes", "throw")}

\* C38: when castVote, revealVotes or resetVotes fails because its Durable Store write
\* fails, the Fast Store is left as it was, so getRoomState returns the same snapshot
\* as before the call, for every viewer.
C38_FailedWriteLeavesSnapshot ==
    [][DurableWriteFailed =>
          \A viewer \in Viewers :
              getRoomState(redis', pg', viewer, FALSE).ret =
                  getRoomState(redis, pg, viewer, FALSE).ret]_vars

\* the LEAVE_ROOM or disconnect of connection c removes the last connection bound to u
LastConnectionRemoved(c, u) ==
    /\ redis.socketMap[c] = u
    /\ LeaveRoom(c, FALSE) \/ Disconnect(c, FALSE)
    /\ \A d \in Sockets : redis'.socketMap[d] # u

\* C39: for every member, a host registered by POST /rooms with adminName included,
\* once every connection that joined for the member has been removed,
\* removeSocketFromUser reports that the member has fully left and the member is no
\* longer in the member set.
C39_LastLeaveRemovesMember ==
    [][\A c \in Sockets, u \in Users :
          LastConnectionRemoved(c, u) =>
              (lastOp' = Op("removeSocketFromUser", "true") /\ u \notin redis'.users)]_vars

\* C40: every vote recorded or cleared through CAST_VOTE on a connection is stored under
\* the user id authenticated for that connection at handshake: whatever JOIN_ROOM and
\* CAST_VOTE messages the connection has sent, its CAST_VOTE creates, changes or clears
\* no vote row of a different user.
C40_VoteUnderHandshakeUser ==
    [][\A c \in Sockets, v \in Values \cup {EmptyValue} :
          CastVote(c, v, FALSE, FALSE) =>
              \A w \in Users \ {AuthUser(c)} : VoteRows(pg', w) = VoteRows(pg, w)]_vars
====
